---- MODULE Spec2Model ----
(***************************************************************************)
(* A model of the livestreaming control plane of camera-platform-local:    *)
(* the Control API (server/api_server.py), the per-camera StreamManager    *)
(* (core/stream_manager.py), its KeepaliveSender (core/keepalive.py) and   *)
(* the viewer Signaling Hub (server/signaling_server.py).                  *)
(*                                                                         *)
(* The program is one asyncio event loop.  A coroutine runs without        *)
(* interruption from one suspension point (an await of real I/O, a sleep,  *)
(* a wait for another task) to the next.  The variable cur names the task  *)
(* that holds the loop; while it is not Idle only that task takes steps,   *)
(* and a step that reaches a suspension point hands the loop back.         *)
(***************************************************************************)
EXTENDS Integers, Sequences, FiniteSets, TLC

\* ------------------------------------------------------------------ bounds
\* HTTP requests that arrive in one run of Spec
MaxRequests == 3
\* HTTP requests that arrive in one run of SpecPump
PumpRequests == 2
\* keepalive publishes one pump attempts in Spec
MaxKeepalives == 1
\* keepalive publishes one pump attempts in SpecPump
PumpKeepalives == 6
\* notifications that arrive in one run of SpecEvents
MaxEvents == 2
\* listeners registered with the client
NumHandlers == 2
\* invocations of KurentoClient.send_request in one run of SpecKurento
MaxCalls == 3
\* HTTP requests and repeated start_stream calls in one run of SpecAgain
AgainRequests == 3
\* messages that the viewers send in one run of SpecStop
StopRequests == 2
\* characters of the SDP strings in SpecJson
MaxTextLen == 3
\* HTTP requests that arrive in one run of SpecPublish
PublishRequests == 2
\* keepalive publishes one pump attempts in SpecPublish
PublishKeepalives == 1
\* HTTP requests that arrive in one run of SpecHub
HubRequests == 2
\* viewer WebSockets that connect in one run of SpecHub
MaxSockets == 2
\* messages the viewer WebSockets send, in all, in one run of SpecHub
MaxMessages == 3
\* SignalingServer.max_viewers_per_stream, the viewer cap the hub is
\* constructed with (settings.MAX_VIEWERS_PER_STREAM in main.py)
max_viewers_per_stream == 1
\* messages the viewer WebSockets send, in all, in one run of SpecIce
IceRequests == 2
\* iceCandidate messages the hub relays in one run of SpecIce
MaxIceMessages == 2

\* ------------------------------------------------------- program constants
\* keepalive.py:196  `if self.error_count >= 5`
MaxKeepaliveErrors == 5

Cameras == {"CAM1"}
Reqs == 1 .. MaxRequests
\* every StreamManager is constructed by one POST start: it is named by the
\* request that constructed it
Mgrs == Reqs
None == 0
Idle == <<"idle", 0>>
HttpTask(r) == <<"http", r>>
Socks == 1 .. MaxSockets
Calls == 1 .. MaxCalls
\* the _handle_client task of a socket
WsTask(s) == <<"ws", s>>
\* the task that runs SignalingServer.stop
StopTask == <<"stop", 0>>
\* the streamId values a viewer may put in its request
StreamIds == {"S1", "S2"}
\* uuid4(): the viewer id of the n-th message of socket s; the sink the media
\* server creates for that request is named by the same number
NewViewerId(s, n) == (s - 1) * MaxMessages + n

VARIABLES
    cur,            \* the task that holds the event loop, or Idle
    connected,      \* KurentoClient.connected
    streams,        \* APIServer.streams: camera id -> StreamManager, or None
    mgr,            \* the StreamManager objects
    pump,           \* the KeepaliveSender of each StreamManager
    req,            \* the HTTP handler tasks
    nextReq,        \* the id the next arriving HTTP request gets
    msReleased,     \* media-server objects whose release has been sent
    mqttLog,        \* the publishes that returned normally: <<kind, stream, outcome>>
    ws,             \* the viewer WebSockets and their _handle_client tasks
    viewers,        \* SignalingServer.viewers: the ViewerSession objects
    websockets,     \* SignalingServer.websockets: socket -> viewer id, or None
    sinkCreated,    \* viewer WebRtcEndpoints the media server has created
    sinkReleased,   \* viewer WebRtcEndpoints whose release has been sent
    hub_stop,       \* the task that runs SignalingServer.stop
    request_id,     \* KurentoClient.request_id
    pending_requests, \* the ids that are keys of KurentoClient.pending_requests
    future,         \* the asyncio.Future created for each request id
    call,           \* the invocations of KurentoClient.send_request
    closing,        \* how far KurentoClient._cleanup has got
    events,         \* the notifications the reader task has read, and who got them
    sdp_answer,     \* the SDP answer processOffer returned to start_stream
    sdp_offer,      \* StreamManager.sdp_offer, the rewritten answer
    play_sdp,       \* the play command that was published, or NoSdp
    request_remote, \* request.remote of the POST start whose SDP is followed
    request_xff,    \* its X-Forwarded-For header, or NoHeader
    camera_ip,      \* the IP its handler selected for the StreamManager
    sdp_text,       \* an SDP as the string that goes into the play message
    json_payload,   \* json.dumps of the message that holds it
    received_sdp    \* the sdpOffer of the message the camera decoded

hubVars == <<ws, viewers, websockets, sinkCreated, sinkReleased, hub_stop>>
kcVars == <<request_id, pending_requests, future, call, closing, events>>
sdpVars == <<sdp_answer, sdp_offer, play_sdp>>
ipVars == <<request_remote, request_xff, camera_ip>>
jsonVars == <<sdp_text, json_payload, received_sdp>>
vars == <<cur, connected, streams, mgr, pump, req, nextReq, msReleased, mqttLog,
          hubVars, kcVars, sdpVars, ipVars, jsonVars>>

\* ------------------------------------------------------------------ objects
\* StreamManager.__init__ leaves state IDLE and no Kurento resources; "none"
\* is a manager that has not been constructed
NoMgr == [state |-> "none", camera_id |-> "CAM1", pipeline_id |-> None,
          rtp_endpoint_id |-> None, mqtt_client |-> FALSE, has_pump |-> FALSE,
          start_attempts |-> 0]

\* KeepaliveSender.__init__: not running, no task, counters zero.  thread is
\* the executor thread that runs one blocking publish.  on_error_called and
\* consecutive (the failed publishes since the last successful one) record
\* what the pump did, and stop_returned that a call of stop() has returned;
\* the code reads none of them.
NoPump == [running |-> FALSE, task |-> "none", keepalive_count |-> 0,
           error_count |-> 0, mqtt_client |-> FALSE, thread |-> FALSE,
           on_error_called |-> FALSE, consecutive |-> 0,
           stop_returned |-> FALSE]

NoReq == [kind |-> "none", camera |-> "CAM1", pc |-> "new", mgr |-> None,
          status |-> 0, stop_from |-> "none"]

\* One viewer WebSocket and its _handle_client task.  viewer_id is the local
\* of _handle_client; camera_id, stream_id, new_viewer_id, pipeline_id,
\* rtp_endpoint_id and viewer_webrtc_id are the locals of
\* _handle_viewer_request; ret is where _cleanup_viewer returns to; out is
\* what the hub has sent on the socket; closed_by tells who closed it.
NoSock == [state |-> "none", pc |-> "none", msgs |-> 0, viewer_id |-> None,
           camera_id |-> "CAM1", stream_id |-> "S1", new_viewer_id |-> None,
           pipeline_id |-> None, rtp_endpoint_id |-> None,
           viewer_webrtc_id |-> None, ret |-> "none", out |-> <<>>,
           closed_by |-> "none"]

\* SignalingServer.stop has not been called: todo is what is left of its
\* list(self.viewers.keys()), sock the socket of the viewer it cleans up
NoStop == [pc |-> "none", todo |-> {}, sock |-> None]

\* One invocation of send_request: where it is, the id it took, how it ended
NoCall == [pc |-> "new", request_id |-> None, outcome |-> "none"]

\* kurento_client.py 84, 229-236: the listeners are registered before the
\* first notification; arrived is what the reader task has read from the
\* wire, turn the listener _handle_event calls next (0 when it is not in
\* _handle_event), got what each listener has been called with, and raised
\* records that a listener has raised.
Handlers == 1 .. NumHandlers
Notifications == {"OnIceCandidate", "MediaStateChanged"}
NoEvents == [arrived |-> <<>>, turn |-> 0, got |-> [h \in Handlers |-> <<>>],
             raised |-> FALSE]

\* kurento_client.py 62-89, 111-114: the client after connect(): no request
\* issued, nothing pending
KurentoClientInit ==
    /\ request_id = 0
    /\ pending_requests = {}
    /\ future = [id \in Calls |-> "none"]
    /\ call = [k \in Calls |-> NoCall]
    /\ closing = "none"
    /\ events = NoEvents

\* an SDP is the sequence of its lines; NoSdp is no SDP yet
NoSdp == <<>>

\* a string is the sequence of its characters
NoText == <<>>

\* a header that the request does not have
NoHeader == <<"absent">>

\* no IPv4 literal
NoIp == ""

\* the start_stream whose SDP the model follows has not got its answer yet,
\* and its POST start has not arrived
SdpInit ==
    /\ sdp_answer = NoSdp
    /\ sdp_offer = NoSdp
    /\ play_sdp = NoSdp
    /\ request_remote = NoText
    /\ request_xff = NoHeader
    /\ camera_ip = NoIp

\* no play message is being encoded
JsonInit ==
    /\ sdp_text = NoText
    /\ json_payload = NoText
    /\ received_sdp = NoText

StreamManagerInit(c, mqttOk) ==
    [NoMgr EXCEPT !.state = "idle", !.camera_id = c, !.mqtt_client = mqttOk]

\* a faulty is_active, which answers the opposite
is_active_Negated(m) == mgr[m].state # "active"

is_active(m) == mgr[m].state = "active"

Init ==
    /\ cur = Idle
    /\ connected = TRUE
    /\ streams = [c \in Cameras |-> None]
    /\ mgr = [m \in Mgrs |-> NoMgr]
    /\ pump = [m \in Mgrs |-> NoPump]
    /\ req = [r \in Reqs |-> NoReq]
    /\ nextReq = 1
    /\ msReleased = {}
    /\ mqttLog = {}
    /\ ws = [s \in Socks |-> NoSock]
    /\ viewers = {}
    /\ websockets = [s \in Socks |-> None]
    /\ sinkCreated = {}
    /\ sinkReleased = {}
    /\ hub_stop = NoStop
    /\ KurentoClientInit
    /\ SdpInit
    /\ JsonInit

\* ------------------------------------------------------------ media server
\* KurentoClient.send_request raises at once when the client is not
\* connected; otherwise the request is sent and the caller is suspended until
\* the reply, an error reply or the timeout.  Suspend gives the caller's next
\* pc and whether it keeps the loop.
IssueCall(r, pcWait, pcRaise) ==
    IF connected
    THEN /\ req' = [req EXCEPT ![r].pc = pcWait]
         /\ cur' = Idle
    ELSE /\ req' = [req EXCEPT ![r].pc = pcRaise]
         /\ cur' = HttpTask(r)

\* The reader task of the client ends when the socket closes or errors and
\* marks the client disconnected.  Nothing in the code connects it again.
KurentoDisconnect ==
    /\ cur = Idle
    /\ connected
    /\ connected' = FALSE
    /\ UNCHANGED <<cur, streams, mgr, pump, req, nextReq, msReleased, mqttLog, hubVars, kcVars, sdpVars, ipVars, jsonVars>>

\* ----------------------------------------------------------- HTTP arrival
\* aiohttp starts one handler task per request.
HttpArrive(limit, kind, c) ==
    /\ cur = Idle
    /\ nextReq <= limit
    /\ req' = [req EXCEPT ![nextReq] =
                 [NoReq EXCEPT !.kind = kind, !.camera = c,
                               !.pc = IF kind = "start" THEN "start_check"
                                      ELSE IF kind = "stop" THEN "stop_check"
                                      ELSE "get"]]
    /\ cur' = HttpTask(nextReq)
    /\ nextReq' = nextReq + 1
    /\ UNCHANGED <<connected, streams, mgr, pump, msReleased, mqttLog, hubVars, kcVars, sdpVars, ipVars, jsonVars>>

\* GET /streams/{camera}
GetStream(r) ==
    /\ cur = HttpTask(r)
    /\ req[r].pc = "get"
    /\ req' = [req EXCEPT ![r].pc = "done",
                          ![r].status = IF streams[req[r].camera] = None
                                        THEN 404 ELSE 200]
    /\ cur' = Idle
    /\ UNCHANGED <<connected, streams, mgr, pump, nextReq, msReleased, mqttLog, hubVars, kcVars, sdpVars, ipVars, jsonVars>>

\* ------------------------------------------------- POST /streams/{c}/start
\* api_server.py 269-289: 409 when the camera's stored manager is active;
\* a stored manager that is not active is stopped and removed first.
StartCheck409(r) ==
    /\ cur = HttpTask(r)
    /\ req[r].pc = "start_check"
    /\ streams[req[r].camera] # None
    /\ is_active(streams[req[r].camera])
    /\ req' = [req EXCEPT ![r].pc = "done", ![r].status = 409]
    /\ cur' = Idle
    /\ UNCHANGED <<connected, streams, mgr, pump, nextReq, msReleased, mqttLog, hubVars, kcVars, sdpVars, ipVars, jsonVars>>

StartCheck(r) ==
    /\ cur = HttpTask(r)
    /\ req[r].pc = "start_check"
    /\ LET existing == streams[req[r].camera] IN
       /\ ~(existing # None /\ is_active(existing))
       /\ req' = [req EXCEPT ![r].pc = IF existing = None THEN "start_create"
                                       ELSE "stop_enter",
                             ![r].mgr = existing]
    /\ UNCHANGED <<cur, connected, streams, mgr, pump, nextReq, msReleased, mqttLog, hubVars, kcVars, sdpVars, ipVars, jsonVars>>

\* api_server.py 291-318 and stream_manager.py 56-125, 180-190: a new
\* StreamManager (its MQTT client may fail to initialise and is then None),
\* state STARTING, and the first media-server call.
StartCreate(r, mqttOk) ==
    /\ cur = HttpTask(r)
    /\ req[r].pc = "start_create"
    /\ mgr' = [mgr EXCEPT ![r] =
                 [StreamManagerInit(req[r].camera, mqttOk) EXCEPT
                      !.state = "starting", !.start_attempts = 1]]
    /\ IF connected
       THEN /\ req' = [req EXCEPT ![r].pc = "create_pipeline", ![r].mgr = r]
            /\ cur' = Idle
       ELSE /\ req' = [req EXCEPT ![r].pc = "start_failed", ![r].mgr = r]
            /\ cur' = cur
    /\ UNCHANGED <<connected, streams, pump, nextReq, msReleased, mqttLog, hubVars, kcVars, sdpVars, ipVars, jsonVars>>

\* a start_stream that refuses no state
StartAccepted_Any(state) == TRUE

\* stream_manager.py 180: start_stream goes on only from IDLE
StartAccepted(state) == state = "idle"

\* stream_manager.py 180-190, called as in 612-614: start_stream is called
\* once more on a manager that was constructed and started before, as
\* StreamManagerContext.__aenter__ does when its context is entered again.
\* In a state other than IDLE it raises StreamManagerError before it touches
\* anything; from IDLE it counts the attempt, sets STARTING and makes its
\* first media-server call.  The caller takes the next request slot.
StartStreamAgain(limit, m) ==
    /\ cur = Idle
    /\ nextReq <= limit
    /\ mgr[m].state # "none"
    /\ nextReq' = nextReq + 1
    /\ IF ~StartAccepted(mgr[m].state)
       THEN /\ req' = [req EXCEPT ![nextReq] =
                        [NoReq EXCEPT !.kind = "enter", !.mgr = m, !.pc = "raised"]]
            /\ UNCHANGED <<cur, mgr>>
       ELSE /\ mgr' = [mgr EXCEPT ![m].state = "starting",
                                  ![m].start_attempts = @ + 1]
            /\ req' = [req EXCEPT ![nextReq] =
                        [NoReq EXCEPT !.kind = "enter", !.mgr = m,
                                      !.pc = IF connected THEN "create_pipeline"
                                             ELSE "start_failed"]]
            /\ cur' = IF connected THEN Idle ELSE HttpTask(nextReq)
    /\ UNCHANGED <<connected, streams, pump, msReleased, mqttLog, hubVars, kcVars, sdpVars, ipVars, jsonVars>>

\* the calls with the minimum bandwidth set before the maximum
StartCalls_MinFirst == <<"create_pipeline", "create_rtp", "process_offer",
                        "set_min_bw", "set_max_bw">>

\* stream_manager.py 188-219: the five media-server calls of start_stream, in
\* the order the code awaits them.
StartCalls == <<"create_pipeline", "create_rtp", "process_offer",
                "set_max_bw", "set_min_bw">>

\* what the manager holds after call k has returned
AfterStartCall(rec, k, m) ==
    IF k = 1 THEN [rec EXCEPT !.pipeline_id = m]
    ELSE IF k = 2 THEN [rec EXCEPT !.rtp_endpoint_id = m]
    ELSE rec

\* a wait that only the reply of the media server ends
CallEnds_NoTimeout(ok) == ok /\ connected

\* kurento_client.py 292-307: the wait of send_request ends with the reply,
\* which takes a connected media server, or by raising: with an error reply
\* or, when no reply comes, with the timeout of wait_for
CallEnds(ok) == ok => connected

\* A call of start_stream returns (ok) or raises (an error reply or the
\* timeout).  After the last one the SDP is rewritten and the play command is
\* handed to the executor, unless the manager has no MQTT client (361-369).
StartCallReturns(r, ok) ==
    /\ cur = Idle
    /\ req[r].kind = "start"
    /\ \E k \in 1 .. Len(StartCalls) :
         /\ req[r].pc = StartCalls[k]
         /\ CallEnds(ok)
         /\ LET m == req[r].mgr IN
            IF ~ok
            THEN /\ req' = [req EXCEPT ![r].pc = "start_failed"]
                 /\ cur' = HttpTask(r)
                 /\ mgr' = mgr
            ELSE /\ mgr' = [mgr EXCEPT ![m] = AfterStartCall(mgr[m], k, m)]
                 /\ IF k < Len(StartCalls)
                    THEN IssueCall(r, StartCalls[k + 1], "start_failed")
                    ELSE IF mgr[m].mqtt_client
                         THEN /\ req' = [req EXCEPT ![r].pc = "publish_play"]
                              /\ cur' = Idle
                         ELSE /\ req' = [req EXCEPT ![r].pc = "start_failed"]
                              /\ cur' = HttpTask(r)
    /\ UNCHANGED <<connected, streams, pump, nextReq, msReleased, mqttLog, hubVars, kcVars, sdpVars, ipVars, jsonVars>>

\* What becomes of one QoS 1 publish: the broker acknowledges it within the
\* 2 s the publisher waits ("acked"); the client library accepts the message
\* (rc is MQTT_ERR_SUCCESS) but no acknowledgement comes within the 2 s
\* ("unacked"); or the library refuses it, with an rc that is not
\* MQTT_ERR_SUCCESS or by raising from wait_for_publish ("failed").
PublishOutcomes == {"acked", "unacked", "failed"}

\* the outcomes with a broker that answers in time whatever it is sent
Answered == {"acked", "failed"}

\* stream_manager.py 388-396, 432-440 and keepalive.py 230-240: publish()
\* waits with wait_for_publish(timeout=2.0), which returns when the time is
\* up, and raises only when info.rc is not MQTT_ERR_SUCCESS
PublishReturnsNormally(o) == o # "failed"

\* keepalive.py 35-71, 111-122: a KeepaliveSender whose MQTT client
\* initialised, after start(): running, with its loop task scheduled.
KeepaliveStarted == [NoPump EXCEPT !.running = TRUE, !.task = "scheduled",
                                   !.mqtt_client = TRUE]

\* stream_manager.py 232-258 (and 384-404): the executor's publish of the play
\* command has returned.  On success the KeepaliveSender is constructed (its
\* constructor raises when its MQTT client fails to initialise) and started,
\* and the state becomes ACTIVE.
PlayPublished(r, o, kaOk) ==
    /\ cur = Idle
    /\ req[r].pc = "publish_play"
    /\ cur' = HttpTask(r)
    /\ LET m == req[r].mgr
           ok == PublishReturnsNormally(o) IN
       IF ok /\ kaOk
       THEN /\ mqttLog' = mqttLog \cup {<<"play", m, o>>}
            /\ pump' = [pump EXCEPT ![m] = KeepaliveStarted]
            /\ mgr' = [mgr EXCEPT ![m].state = "active", ![m].has_pump = TRUE]
            /\ req' = [req EXCEPT ![r].pc = "start_store"]
       ELSE /\ mqttLog' = IF ok THEN mqttLog \cup {<<"play", m, o>>} ELSE mqttLog
            /\ req' = [req EXCEPT ![r].pc = "start_failed"]
            /\ UNCHANGED <<pump, mgr>>
    /\ UNCHANGED <<connected, streams, nextReq, msReleased, hubVars, kcVars, sdpVars, ipVars, jsonVars>>

\* api_server.py 320-325: the started manager is stored under its camera id.
StoreManager(cam, m) == [streams EXCEPT ![cam] = m]

StartStore(r) ==
    /\ cur = HttpTask(r)
    /\ req[r].pc = "start_store"
    /\ streams' = StoreManager(req[r].camera, req[r].mgr)
    /\ req' = [req EXCEPT ![r].pc = "done", ![r].status = 201]
    /\ cur' = Idle
    /\ UNCHANGED <<connected, mgr, pump, nextReq, msReleased, mqttLog, hubVars, kcVars, sdpVars, ipVars, jsonVars>>

\* a faulty cleanup, which keeps the handles
ClearHandles_Keeps(rec) == rec

\* stream_manager.py 451-466: _cleanup_resources clears the handles
ClearHandles(rec) == [rec EXCEPT !.pipeline_id = None, !.rtp_endpoint_id = None]

\* stream_manager.py 260-269: the except branch of start_stream: state ERROR,
\* then _cleanup_resources, which sends the pipeline's release when there is
\* a pipeline (release_pipeline swallows the error of a client that is not
\* connected, and nothing is sent then).
StartFailed(r) ==
    /\ cur = HttpTask(r)
    /\ req[r].pc = "start_failed"
    /\ LET m == req[r].mgr
           failed == [mgr[m] EXCEPT !.state = "error"] IN
       IF mgr[m].pipeline_id # None /\ connected
       THEN /\ mgr' = [mgr EXCEPT ![m] = failed]
            /\ msReleased' = msReleased \cup {mgr[m].pipeline_id}
            /\ req' = [req EXCEPT ![r].pc = "start_release"]
            /\ cur' = Idle
       ELSE /\ mgr' = [mgr EXCEPT ![m] = ClearHandles(failed)]
            /\ req' = [req EXCEPT ![r].pc = "start_raise"]
            /\ UNCHANGED <<cur, msReleased>>
    /\ UNCHANGED <<connected, streams, pump, nextReq, mqttLog, hubVars, kcVars, sdpVars, ipVars, jsonVars>>

\* the release call has returned or raised (release_pipeline swallows it)
StartReleaseReturns(r) ==
    /\ cur = Idle
    /\ req[r].pc = "start_release"
    /\ mgr' = [mgr EXCEPT ![req[r].mgr] = ClearHandles(@)]
    /\ req' = [req EXCEPT ![r].pc = "start_raise"]
    /\ cur' = HttpTask(r)
    /\ UNCHANGED <<connected, streams, pump, nextReq, msReleased, mqttLog, hubVars, kcVars, sdpVars, ipVars, jsonVars>>

\* stream_manager.py 271-280 and api_server.py 327-333: on_error only logs,
\* the StreamManagerError becomes a 500 response.
StartRaise(r) ==
    /\ cur = HttpTask(r)
    /\ req[r].pc = "start_raise"
    /\ req' = [req EXCEPT ![r].pc = "done", ![r].status = 500]
    /\ cur' = Idle
    /\ UNCHANGED <<connected, streams, mgr, pump, nextReq, msReleased, mqttLog, hubVars, kcVars, sdpVars, ipVars, jsonVars>>

\* -------------------------------------------------- POST /streams/{c}/stop
\* api_server.py 342-353, 460-465: 404 when the camera has no stored manager,
\* else stop_stream on the stored one.
StopCheck(r) ==
    /\ cur = HttpTask(r)
    /\ req[r].pc = "stop_check"
    /\ LET existing == streams[req[r].camera] IN
       IF existing = None
       THEN /\ req' = [req EXCEPT ![r].pc = "done", ![r].status = 404]
            /\ cur' = Idle
       ELSE /\ req' = [req EXCEPT ![r].pc = "stop_enter", ![r].mgr = existing]
            /\ cur' = cur
    /\ UNCHANGED <<connected, streams, mgr, pump, nextReq, msReleased, mqttLog, hubVars, kcVars, sdpVars, ipVars, jsonVars>>

\* ----------------------------------------------- StreamManager.stop_stream
\* stop_stream is run by the POST stop handler and by the POST start handler
\* that found a stored manager that is not active; req[r].mgr is the manager.
\*
\* stream_manager.py 296-308 and keepalive.py 124-137: no state is refused
\* (a warning only); state STOPPING; a running pump is told to stop (its task
\* is cancelled) and the caller waits for the task.
StopEnter(r) ==
    /\ cur = HttpTask(r)
    /\ req[r].pc = "stop_enter"
    /\ LET m == req[r].mgr IN
       /\ mgr' = [mgr EXCEPT ![m].state = "stopping"]
       /\ IF mgr[m].has_pump /\ pump[m].running
          THEN /\ pump' = [pump EXCEPT ![m].running = FALSE,
                                       ![m].task = "cancelling"]
               /\ req' = [req EXCEPT ![r].pc = "stop_wait_task",
                                     ![r].stop_from = mgr[m].state]
               /\ cur' = Idle
          ELSE /\ req' = [req EXCEPT ![r].pc = "stop_cmd",
                                     ![r].stop_from = mgr[m].state]
               /\ UNCHANGED <<pump, cur>>
    /\ UNCHANGED <<connected, streams, nextReq, msReleased, mqttLog, hubVars, kcVars, sdpVars, ipVars, jsonVars>>

\* keepalive.py 135-145 and stream_manager.py 308: the cancelled task has
\* ended (CancelledError is caught in the loop), the pump's MQTT client is
\* disconnected, and stop_stream sleeps for half a second.
StopTaskJoined(r) ==
    /\ cur = Idle
    /\ req[r].pc = "stop_wait_task"
    /\ pump' = [pump EXCEPT ![req[r].mgr].task = "done",
                            ![req[r].mgr].mqtt_client = FALSE,
                            ![req[r].mgr].stop_returned = TRUE]
    /\ req' = [req EXCEPT ![r].pc = "stop_sleep"]
    /\ UNCHANGED <<cur, connected, streams, mgr, nextReq, msReleased, mqttLog, hubVars, kcVars, sdpVars, ipVars, jsonVars>>

StopSleepDone(r) ==
    /\ cur = Idle
    /\ req[r].pc = "stop_sleep"
    /\ req' = [req EXCEPT ![r].pc = "stop_cmd"]
    /\ cur' = HttpTask(r)
    /\ UNCHANGED <<connected, streams, mgr, pump, nextReq, msReleased, mqttLog, hubVars, kcVars, sdpVars, ipVars, jsonVars>>

\* stream_manager.py 311-313, 406-440: the stop command is handed to the
\* executor, or skipped when the manager has no MQTT client.
StopCommand(r) ==
    /\ cur = HttpTask(r)
    /\ req[r].pc = "stop_cmd"
    /\ IF mgr[req[r].mgr].mqtt_client
       THEN /\ req' = [req EXCEPT ![r].pc = "stop_publish"]
            /\ cur' = Idle
       ELSE /\ req' = [req EXCEPT ![r].pc = "stop_cleanup"]
            /\ cur' = cur
    /\ UNCHANGED <<connected, streams, mgr, pump, nextReq, msReleased, mqttLog, hubVars, kcVars, sdpVars, ipVars, jsonVars>>

\* stream_manager.py 432-445: the executor's publish has returned; its
\* outcome is not looked at.
StopPublished(r, o) ==
    /\ cur = Idle
    /\ req[r].pc = "stop_publish"
    /\ mqttLog' = IF PublishReturnsNormally(o)
                  THEN mqttLog \cup {<<"stop", req[r].mgr, o>>} ELSE mqttLog
    /\ req' = [req EXCEPT ![r].pc = "stop_cleanup"]
    /\ cur' = HttpTask(r)
    /\ UNCHANGED <<connected, streams, mgr, pump, nextReq, msReleased, hubVars, kcVars, sdpVars, ipVars, jsonVars>>

\* stream_manager.py 316, 451-466: _cleanup_resources
StopCleanup(r) ==
    /\ cur = HttpTask(r)
    /\ req[r].pc = "stop_cleanup"
    /\ LET m == req[r].mgr IN
       IF mgr[m].pipeline_id # None /\ connected
       THEN /\ msReleased' = msReleased \cup {mgr[m].pipeline_id}
            /\ req' = [req EXCEPT ![r].pc = "stop_release"]
            /\ cur' = Idle
            /\ mgr' = mgr
       ELSE /\ mgr' = [mgr EXCEPT ![m] = ClearHandles(@)]
            /\ req' = [req EXCEPT ![r].pc = "stop_finish"]
            /\ UNCHANGED <<cur, msReleased>>
    /\ UNCHANGED <<connected, streams, pump, nextReq, mqttLog, hubVars, kcVars, sdpVars, ipVars, jsonVars>>

StopReleaseReturns(r) ==
    /\ cur = Idle
    /\ req[r].pc = "stop_release"
    /\ mgr' = [mgr EXCEPT ![req[r].mgr] = ClearHandles(@)]
    /\ req' = [req EXCEPT ![r].pc = "stop_finish"]
    /\ cur' = HttpTask(r)
    /\ UNCHANGED <<connected, streams, pump, nextReq, msReleased, mqttLog, hubVars, kcVars, sdpVars, ipVars, jsonVars>>

\* a stop_stream that ends as its except branch does, with ERROR
AfterStop_Error(rec) == [rec EXCEPT !.mqtt_client = FALSE, !.state = "error"]

\* stream_manager.py 318-327: what the manager is at the end of stop_stream
AfterStop(rec) == [rec EXCEPT !.mqtt_client = FALSE, !.state = "stopped"]

\* stream_manager.py 318-327: the manager's MQTT client is disconnected and
\* the state becomes STOPPED.
StopFinish(r) ==
    /\ cur = HttpTask(r)
    /\ req[r].pc = "stop_finish"
    /\ mgr' = [mgr EXCEPT ![req[r].mgr] = AfterStop(@)]
    /\ req' = [req EXCEPT ![r].pc = "stop_return"]
    /\ UNCHANGED <<cur, connected, streams, pump, nextReq, msReleased, mqttLog, hubVars, kcVars, sdpVars, ipVars, jsonVars>>

\* a faulty removal, which leaves the entry where it is
RemoveManager_Keeps(cam) == streams

\* `del self.streams[camera_id]`: whatever is stored under the camera id goes
RemoveManager(cam) == [streams EXCEPT ![cam] = None]

\* stop_stream has returned to its caller.  api_server.py 467-470, 355-365:
\* the POST stop handler removes the camera's entry and answers 200; a missing
\* entry is a KeyError, answered 500.  api_server.py 285-289: the POST start
\* handler removes the old entry and goes on to construct the new manager; a
\* missing entry is a KeyError outside any try, which the web framework
\* answers with 500.
StopStreamReturns(r) ==
    /\ cur = HttpTask(r)
    /\ req[r].pc = "stop_return"
    /\ IF streams[req[r].camera] = None
       THEN /\ req' = [req EXCEPT ![r].pc = "done", ![r].status = 500]
            /\ streams' = streams
            /\ cur' = Idle
       ELSE /\ streams' = RemoveManager(req[r].camera)
            /\ IF req[r].kind = "stop"
               THEN /\ req' = [req EXCEPT ![r].pc = "done", ![r].status = 200]
                    /\ cur' = Idle
               ELSE /\ req' = [req EXCEPT ![r].pc = "start_create"]
                    /\ cur' = cur
    /\ UNCHANGED <<connected, mgr, pump, nextReq, msReleased, mqttLog, hubVars, kcVars, sdpVars, ipVars, jsonVars>>

\* ---------------------------------------------------------- KeepaliveSender
\* keepalive.py 168-198: _send_keepalive catches every Exception of the
\* publish itself, so nothing propagates to _keepalive_loop.
SendKeepaliveRaises(ok) == FALSE

\* keepalive.py 150-151, 170-179: the loop task runs (for the first time or
\* after its sleep).  With running set it hands a publish to the executor;
\* with running cleared the loop ends and so does the task.
PumpWake(m, limit) ==
    /\ cur = Idle
    /\ pump[m].task \in {"scheduled", "sleeping"}
    /\ pump[m].running => pump[m].keepalive_count + pump[m].error_count < limit
    /\ pump' = IF pump[m].running
               THEN [pump EXCEPT ![m].task = "publishing", ![m].thread = TRUE]
               ELSE [pump EXCEPT ![m].task = "done"]
    /\ UNCHANGED <<cur, connected, streams, mgr, req, nextReq, msReleased, mqttLog, hubVars, kcVars, sdpVars, ipVars, jsonVars>>

\* keepalive.py 181-198: what _send_keepalive does with the publish's outcome
AfterKeepalive(p, ok) ==
    IF ok
    THEN [p EXCEPT !.keepalive_count = @ + 1, !.consecutive = 0]
    ELSE [p EXCEPT !.error_count = @ + 1, !.consecutive = @ + 1,
                   !.running = IF p.error_count + 1 >= MaxKeepaliveErrors
                               THEN FALSE ELSE @]

\* keepalive.py 229-233 and 139-142: the thread publishes through
\* self.mqtt_client, which stop() has disconnected and set to None once the
\* cancelled task has ended: from then on the thread's publish raises and
\* nothing goes out
KeepaliveGoesOut(p, o) == PublishReturnsNormally(o) /\ p.mqtt_client

\* keepalive.py 219-246, 152-166: the executor thread's publish returns.  A
\* task that still waits for it counts the outcome and sleeps; the except
\* branch of the loop (running cleared, on_error called, which is
\* StreamManager._handle_keepalive_error, 497-509) is taken only if
\* _send_keepalive raised.  A task cancelled meanwhile no longer listens,
\* and the thread goes on to its end.
PumpPublishReturns(m, o) ==
    /\ cur = Idle
    /\ pump[m].thread
    /\ mqttLog' = IF KeepaliveGoesOut(pump[m], o)
                  THEN mqttLog \cup {<<"keepalive", m, o>>} ELSE mqttLog
    /\ IF pump[m].task # "publishing"
       THEN /\ pump' = [pump EXCEPT ![m].thread = FALSE]
            /\ mgr' = mgr
       ELSE IF SendKeepaliveRaises(PublishReturnsNormally(o))
       THEN /\ pump' = [pump EXCEPT ![m].thread = FALSE, ![m].running = FALSE,
                                    ![m].task = "done",
                                    ![m].on_error_called = TRUE]
            /\ mgr' = [mgr EXCEPT ![m].state = "error"]
       ELSE /\ pump' = [pump EXCEPT ![m] =
                          [AfterKeepalive(pump[m], PublishReturnsNormally(o)) EXCEPT !.thread = FALSE,
                                                              !.task = "sleeping"]]
            /\ mgr' = mgr
    /\ UNCHANGED <<cur, connected, streams, req, nextReq, msReleased, hubVars, kcVars, sdpVars, ipVars, jsonVars>>

\* keepalive.py 124-127, called as in 312-314: stop() is called on a sender
\* that was started and is no longer running, as
\* KeepaliveSenderContext.__aexit__ does whatever has become of its sender.
\* It returns at once.
KeepaliveStopNotRunning(m) ==
    /\ cur = Idle
    /\ mgr[m].has_pump
    /\ ~pump[m].running
    /\ ~pump[m].stop_returned
    /\ pump' = [pump EXCEPT ![m].stop_returned = TRUE]
    /\ UNCHANGED <<cur, connected, streams, mgr, req, nextReq, msReleased, mqttLog, hubVars, kcVars, sdpVars, ipVars, jsonVars>>

\* ------------------------------------------------------------ KurentoClient
\* everything but the client
appVars == <<cur, streams, mgr, pump, req, nextReq, msReleased, mqttLog, hubVars>>

\* a faulty pop, which leaves the id where it is
PopRequest_Keeps(pending, id) == pending

\* kurento_client.py 300, 305: self.pending_requests.pop(request_id, None)
PopRequest(pending, id) == pending \ {id}

\* a counter that stays at its first value
NextRequestId_Stuck(n) == 1

\* kurento_client.py 271-273: under the lock, self.request_id += 1
NextRequestId(n) == n + 1

\* kurento_client.py 267-289: send_request up to the send.  A client that is
\* not connected raises at once.  Otherwise the next id is taken, a Future
\* is stored under it and the request is handed to the socket.
SendRequest(k) ==
    /\ cur = Idle
    /\ call[k].pc = "new"
    /\ k > 1 => call[k - 1].pc # "new"
    /\ IF ~connected
       THEN /\ call' = [call EXCEPT ![k].pc = "done",
                                    ![k].outcome = "Not connected to Kurento"]
            /\ UNCHANGED <<request_id, pending_requests, future>>
       ELSE /\ request_id' = NextRequestId(request_id)
            /\ pending_requests' = pending_requests \cup {NextRequestId(request_id)}
            /\ future' = [future EXCEPT ![NextRequestId(request_id)] = "pending"]
            /\ call' = [call EXCEPT ![k].pc = "sending",
                                    ![k].request_id = NextRequestId(request_id)]
    /\ UNCHANGED <<appVars, sdpVars, ipVars, jsonVars, connected, closing, events>>

\* kurento_client.py 289-294, 304-307: send_json returns and the caller waits
\* for the future with the timeout, or send_json raises and the id is popped
SendJsonReturns(k, ok) ==
    /\ cur = Idle
    /\ call[k].pc = "sending"
    /\ ok => connected
    /\ IF ok
       THEN /\ call' = [call EXCEPT ![k].pc = "waiting"]
            /\ UNCHANGED pending_requests
       ELSE /\ call' = [call EXCEPT ![k].pc = "done", ![k].outcome = "send failed"]
            /\ pending_requests' = PopRequest(pending_requests, call[k].request_id)
    /\ UNCHANGED <<appVars, sdpVars, ipVars, jsonVars, connected, request_id, future, closing, events>>

\* a reader that resolves the oldest pending future, whatever the id
PoppedFuture_Oldest(id) ==
    CHOOSE i \in pending_requests : \A j \in pending_requests : i <= j

\* kurento_client.py 200: future = self.pending_requests.pop(request_id)
PoppedFuture(id) == id

\* kurento_client.py 163-176, 192-209: the reader task reads the response to
\* request id.  An id that is not pending is logged.  Otherwise the id is
\* popped and the future resolved; a future the timeout has cancelled
\* already refuses (InvalidStateError), which ends the reader task, whose
\* finally block marks the client disconnected (185-190).
RpcResponse(id, isError) ==
    /\ cur = Idle
    /\ connected
    /\ events.turn = 0
    /\ id \in 1 .. request_id
    /\ IF id \notin pending_requests
       THEN UNCHANGED <<pending_requests, future, connected>>
       ELSE /\ pending_requests' = pending_requests \ {id}
            /\ IF future[PoppedFuture(id)] = "pending"
               THEN /\ future' = [future EXCEPT ![PoppedFuture(id)] =
                                    IF isError THEN "KurentoRequestError"
                                    ELSE "result"]
                    /\ connected' = connected
               ELSE /\ future' = future
                    /\ connected' = FALSE
    /\ UNCHANGED <<appVars, sdpVars, ipVars, jsonVars, request_id, call, closing, events>>

\* kurento_client.py 294: the timeout of wait_for expires before the future
\* is done: the future is cancelled, and the caller is woken
TimerFires(k) ==
    /\ cur = Idle
    /\ call[k].pc = "waiting"
    /\ future[call[k].request_id] = "pending"
    /\ future' = [future EXCEPT ![call[k].request_id] = "cancelled"]
    /\ UNCHANGED <<appVars, sdpVars, ipVars, jsonVars, connected, request_id, pending_requests, call, closing, events>>

\* kurento_client.py 294-307: the caller runs again with its future done:
\* it returns the result, or pops its id and raises
CallResumes(k) ==
    /\ cur = Idle
    /\ call[k].pc = "waiting"
    /\ future[call[k].request_id] # "pending"
    /\ LET f == future[call[k].request_id] IN
       /\ call' = [call EXCEPT ![k].pc = "done",
                               ![k].outcome = IF f = "cancelled"
                                              THEN "TimeoutError" ELSE f]
       /\ pending_requests' = IF f = "result" THEN pending_requests
                              ELSE PopRequest(pending_requests, call[k].request_id)
    /\ UNCHANGED <<appVars, sdpVars, ipVars, jsonVars, connected, request_id, future, closing, events>>

\* kurento_client.py 294, 299-307: the task of the caller is cancelled while
\* it waits: wait_for cancels the future and CancelledError leaves
\* send_request through neither except clause (it is not an Exception), so
\* the id stays in pending_requests
CallCancelled(k) ==
    /\ cur = Idle
    /\ call[k].pc = "waiting"
    /\ future[call[k].request_id] = "pending"
    /\ future' = [future EXCEPT ![call[k].request_id] = "cancelled"]
    /\ call' = [call EXCEPT ![k].pc = "done", ![k].outcome = "CancelledError"]
    /\ UNCHANGED <<appVars, sdpVars, ipVars, jsonVars, connected, request_id, pending_requests, closing, events>>

\* kurento_client.py 163-173: the reader task reads a message that has a
\* method and no id, and enters _handle_event
EventArrives(n) ==
    /\ cur = Idle
    /\ connected
    /\ events.turn = 0
    /\ Len(events.arrived) < MaxEvents
    /\ events' = [events EXCEPT !.arrived = Append(@, n), !.turn = 1]
    /\ UNCHANGED <<appVars, sdpVars, ipVars, jsonVars, connected, request_id, pending_requests, future, call, closing>>

\* a loop over the listeners that the first exception ends
NextTurn_Propagates(h, raises) == IF h < NumHandlers /\ ~raises THEN h + 1 ELSE 0

\* kurento_client.py 220-227: the exception of a listener is caught and
\* logged inside the loop, which goes on with the next listener
NextTurn(h, raises) == IF h < NumHandlers THEN h + 1 ELSE 0

\* kurento_client.py 220-227: _handle_event calls (and awaits) listener h
\* with the notification, and the listener returns or raises
HandlerCalled(h, raises) ==
    /\ cur = Idle
    /\ events.turn = h
    /\ events' = [events EXCEPT
                     !.got[h] = Append(@, events.arrived[Len(events.arrived)]),
                     !.turn = NextTurn(h, raises),
                     !.raised = @ \/ raises]
    /\ UNCHANGED <<appVars, sdpVars, ipVars, jsonVars, connected, request_id, pending_requests, future, call, closing>>

\* kurento_client.py 124-147: close() at service stop: _cleanup marks the
\* client disconnected, cancels the reader task and waits for it, for the
\* socket and for the session to close
CleanupBegins ==
    /\ cur = Idle
    /\ closing = "none"
    /\ connected' = FALSE
    /\ closing' = "closing"
    /\ UNCHANGED <<appVars, sdpVars, ipVars, jsonVars, request_id, pending_requests, future, call, events>>

\* kurento_client.py 149-155: _cleanup rejects every pending request that is
\* not done with "Connection closed" and clears the pending set
CleanupRejects ==
    /\ cur = Idle
    /\ closing = "closing"
    /\ future' = [id \in Calls |->
                    IF id \in pending_requests /\ future[id] = "pending"
                    THEN "Connection closed" ELSE future[id]]
    /\ pending_requests' = {}
    /\ closing' = "closed"
    /\ UNCHANGED <<appVars, sdpVars, ipVars, jsonVars, connected, request_id, call, events>>

\* ------------------------------------------------------------ Signaling Hub
apiVars == <<connected, streams, mgr, pump, req, nextReq, msReleased, mqttLog>>

\* api_server.py 535-561: get_stream_connection_info returns None unless the
\* camera has a stored manager that is active
HasConnectionInfo(c) == streams[c] # None /\ is_active(streams[c])

\* signaling_server.py 297-300: the viewers the cap check counts
stream_viewers(c, sid) ==
    {v \in viewers : v.camera_id = c /\ v.stream_id = sid}

\* signaling_server.py 302-304, 310, 375: the texts of the errors
MaxViewersText ==
    "Maximum viewers (" \o ToString(max_viewers_per_stream) \o ") reached for stream"

NoStreamText(c) == "No active stream found for camera " \o c

FailedText == "Failed to process viewer request"

ErrorMessage(text) == [type |-> "error", message |-> text]

\* signaling_server.py 544-580: _send_error; the send on a closed socket
\* raises and _send_error swallows it
SendTo(sock, msg) ==
    IF sock.state = "open" THEN [sock EXCEPT !.out = Append(@, msg)] ELSE sock

\* _handle_viewer_request has returned or raised: its locals are gone and the
\* message loop reads the next message
EndRequest(sock) ==
    [sock EXCEPT !.pc = "recv", !.camera_id = NoSock.camera_id,
                 !.stream_id = NoSock.stream_id, !.new_viewer_id = None,
                 !.pipeline_id = None, !.rtp_endpoint_id = None,
                 !.viewer_webrtc_id = None]

\* signaling_server.py 341-348: the ViewerSession that is recorded.  pipeline
\* is the pipeline the sink was created on; the code does not keep it.
ViewerSession(sock, s) ==
    [viewer_id |-> sock.new_viewer_id, websocket |-> s,
     camera_id |-> sock.camera_id, stream_id |-> sock.stream_id,
     webrtc_endpoint_id |-> sock.viewer_webrtc_id,
     pipeline |-> sock.pipeline_id]

\* the messages read so far from sockets 1 .. n
RECURSIVE MessagesRead(_)
MessagesRead(n) == IF n = 0 THEN 0 ELSE ws[n].msgs + MessagesRead(n - 1)

\* websockets.serve starts one _handle_client task per connection (203-216)
WsConnect(s) ==
    /\ cur = Idle
    /\ ws[s].state = "none"
    /\ s > 1 => ws[s - 1].state # "none"
    /\ ws' = [ws EXCEPT ![s].state = "open", ![s].pc = "recv"]
    /\ UNCHANGED <<cur, apiVars, viewers, websockets, sinkCreated, sinkReleased, hub_stop, kcVars, sdpVars, ipVars, jsonVars>>

\* the viewer closes its connection, or it drops
WsClientClose(s) ==
    /\ cur = Idle
    /\ ws[s].state = "open"
    /\ ws' = [ws EXCEPT ![s].state = "closed", ![s].closed_by = "peer"]
    /\ UNCHANGED <<cur, apiVars, viewers, websockets, sinkCreated, sinkReleased, hub_stop, kcVars, sdpVars, ipVars, jsonVars>>

\* signaling_server.py 216-233: the next message of the socket is read and
\* dispatched on its type
WsRecv(s, limit, type, c, sid) ==
    /\ cur = Idle
    /\ ws[s].pc = "recv"
    /\ ws[s].state = "open"
    /\ MessagesRead(MaxSockets) < limit
    /\ ws' = [ws EXCEPT ![s].msgs = @ + 1,
                        ![s].camera_id = IF type = "viewer" THEN c ELSE @,
                        ![s].stream_id = IF type = "viewer" THEN sid ELSE @,
                        ![s].pc = IF type = "viewer" THEN "viewer_request"
                                  ELSE "stop_request"]
    /\ cur' = WsTask(s)
    /\ UNCHANGED <<apiVars, viewers, websockets, sinkCreated, sinkReleased, hub_stop, kcVars, sdpVars, ipVars, jsonVars>>

\* signaling_server.py 531-538: the end of _cleanup_viewer: the viewer's
\* socket is closed if it is still open, and the caller goes on at ret
AfterRelease(sock, ret) ==
    IF sock.state = "open"
    THEN [sock EXCEPT !.state = "closed", !.closed_by = "hub",
                      !.pc = "cleanup_close", !.ret = ret]
    ELSE [sock EXCEPT !.pc = ret, !.ret = "none"]

\* a cleanup that leaves the session in the map
PopViewer_Keeps(vid) == viewers

\* signaling_server.py 513: self.viewers.pop(viewer_id, None)
PopViewer(vid) == viewers \ {v \in viewers : v.viewer_id = vid}

\* signaling_server.py 504-538: _cleanup_viewer called by the task of socket
\* s, up to its first suspension.  Both callers pass a viewer id that a
\* request of socket s recorded, so the viewer's socket is s.  release_endpoint
\* swallows the error of a client that is not connected.
CleanupViewer(s, vid, ret) ==
    LET found == {v \in viewers : v.viewer_id = vid} IN
    /\ cur' = Idle
    /\ viewers' = PopViewer(vid)
    /\ websockets' = IF found = {} THEN websockets
                     ELSE [websockets EXCEPT ![s] = None]
    /\ sinkReleased' = IF connected
                       THEN sinkReleased \cup {v.webrtc_endpoint_id : v \in found}
                       ELSE sinkReleased
    /\ ws' = [ws EXCEPT ![s] =
                IF found = {} THEN [@ EXCEPT !.pc = ret]
                ELSE IF connected
                     THEN [@ EXCEPT !.pc = "cleanup_release", !.ret = ret]
                     ELSE AfterRelease(@, ret)]

\* the release call has returned or raised
WsReleaseReturns(s) ==
    /\ cur = Idle
    /\ ws[s].pc = "cleanup_release"
    /\ ws' = [ws EXCEPT ![s] = AfterRelease(@, @.ret)]
    /\ UNCHANGED <<cur, apiVars, viewers, websockets, sinkCreated, sinkReleased, hub_stop, kcVars, sdpVars, ipVars, jsonVars>>

\* websocket.close() has returned
WsCloseReturns(s) ==
    /\ cur = Idle
    /\ ws[s].pc = "cleanup_close"
    /\ ws' = [ws EXCEPT ![s].pc = ws[s].ret, ![s].ret = "none"]
    /\ UNCHANGED <<cur, apiVars, viewers, websockets, sinkCreated, sinkReleased, hub_stop, kcVars, sdpVars, ipVars, jsonVars>>

\* signaling_server.py 247-259: the socket is closed, the message loop ends,
\* and the finally block cleans up the viewer of the local viewer_id, or
\* else the one the socket map holds
WsFinally(s) ==
    /\ cur = Idle
    /\ ws[s].pc = "recv"
    /\ ws[s].state = "closed"
    /\ LET vid == IF ws[s].viewer_id # None THEN ws[s].viewer_id
                  ELSE websockets[s] IN
       IF vid = None
       THEN /\ ws' = [ws EXCEPT ![s].pc = "end"]
            /\ UNCHANGED <<cur, viewers, websockets, sinkReleased>>
       ELSE CleanupViewer(s, vid, "end")
    /\ UNCHANGED <<apiVars, sinkCreated, hub_stop, kcVars, sdpVars, ipVars, jsonVars>>

\* signaling_server.py 422-435: _handle_stop_request
WsStopRequest(s) ==
    /\ cur = WsTask(s)
    /\ ws[s].pc = "stop_request"
    /\ IF websockets[s] = None
       THEN /\ ws' = [ws EXCEPT ![s].pc = "recv"]
            /\ cur' = Idle
            /\ UNCHANGED <<viewers, websockets, sinkReleased>>
       ELSE CleanupViewer(s, websockets[s], "recv")
    /\ UNCHANGED <<apiVars, sinkCreated, hub_stop, kcVars, sdpVars, ipVars, jsonVars>>

\* the calls with the gathering of candidates before the subscription
ViewerCalls_GatherEarly == <<"create_webrtc", "gather_candidates",
                             "set_max_send_bw", "set_min_send_bw", "connect",
                             "process_offer", "subscribe">>

\* signaling_server.py 321-361: the seven media-server calls of
\* _handle_viewer_request, in the order the code awaits them
ViewerCalls == <<"create_webrtc", "subscribe", "set_max_send_bw",
                 "set_min_send_bw", "connect", "process_offer",
                 "gather_candidates">>

\* the position in ViewerCalls after which the ViewerSession is recorded
RecordAfter == 5

\* KurentoClient.send_request for call k of the viewer request: raises at
\* once when the client is not connected, else suspends the task
IssueViewerCall(s, sock, k) ==
    IF connected
    THEN /\ ws' = [ws EXCEPT ![s] = [sock EXCEPT !.pc = ViewerCalls[k]]]
         /\ cur' = Idle
    ELSE /\ ws' = [ws EXCEPT ![s] = [sock EXCEPT !.pc = "viewer_failed"]]
         /\ cur' = WsTask(s)

\* signaling_server.py 289-321 and 243-245: the cap check, the lookup of the
\* camera's active stream, a fresh viewer id and the first media-server call.
\* A SignalingError raised here is caught by the message loop, which sends
\* its text and reads the next message.
WsViewerRequest(s) ==
    /\ cur = WsTask(s)
    /\ ws[s].pc = "viewer_request"
    /\ LET c == ws[s].camera_id
           sid == ws[s].stream_id IN
       IF Cardinality(stream_viewers(c, sid)) >= max_viewers_per_stream
       THEN /\ ws' = [ws EXCEPT ![s] =
                        EndRequest(SendTo(@, ErrorMessage(MaxViewersText)))]
            /\ cur' = Idle
       ELSE IF ~HasConnectionInfo(c)
       THEN /\ ws' = [ws EXCEPT ![s] =
                        EndRequest(SendTo(@, ErrorMessage(NoStreamText(c))))]
            /\ cur' = Idle
       ELSE IssueViewerCall(s,
                [ws[s] EXCEPT !.new_viewer_id = NewViewerId(s, ws[s].msgs),
                              !.pipeline_id = mgr[streams[c]].pipeline_id,
                              !.rtp_endpoint_id = mgr[streams[c]].rtp_endpoint_id,
                              !.viewer_webrtc_id = None],
                1)
    /\ UNCHANGED <<apiVars, viewers, websockets, sinkCreated, sinkReleased, hub_stop, kcVars, sdpVars, ipVars, jsonVars>>

\* signaling_server.py 321-361: a call of the viewer request returns (ok) or
\* raises.  The first one gives the sink; after connect_endpoints the
\* ViewerSession is recorded in both maps; after the last one the response
\* is due.
WsCallReturns(s, ok) ==
    /\ cur = Idle
    /\ \E k \in 1 .. Len(ViewerCalls) :
         /\ ws[s].pc = ViewerCalls[k]
         /\ ok => connected
         /\ IF ~ok
            THEN /\ ws' = [ws EXCEPT ![s].pc = "viewer_failed"]
                 /\ cur' = WsTask(s)
                 /\ UNCHANGED <<viewers, websockets, sinkCreated>>
            ELSE LET sock == IF k = 1
                             THEN [ws[s] EXCEPT !.viewer_webrtc_id = ws[s].new_viewer_id]
                             ELSE ws[s] IN
                 /\ sinkCreated' = IF k = 1
                                   THEN sinkCreated \cup {sock.viewer_webrtc_id}
                                   ELSE sinkCreated
                 /\ viewers' = IF k = RecordAfter
                               THEN {v \in viewers : v.viewer_id # sock.new_viewer_id}
                                        \cup {ViewerSession(sock, s)}
                               ELSE viewers
                 /\ websockets' = IF k = RecordAfter
                                  THEN [websockets EXCEPT ![s] = sock.new_viewer_id]
                                  ELSE websockets
                 /\ IF k < Len(ViewerCalls)
                    THEN IssueViewerCall(s, sock, k + 1)
                    ELSE /\ ws' = [ws EXCEPT ![s] = [sock EXCEPT !.pc = "viewer_respond"]]
                         /\ cur' = WsTask(s)
    /\ UNCHANGED <<apiVars, sinkReleased, hub_stop, kcVars, sdpVars, ipVars, jsonVars>>

\* signaling_server.py 363-372 and 225: the viewerResponse is sent and the
\* viewer id returned to the message loop; a send on a closed socket raises
\* into the except branch
WsViewerRespond(s) ==
    /\ cur = WsTask(s)
    /\ ws[s].pc = "viewer_respond"
    /\ IF ws[s].state = "open"
       THEN /\ ws' = [ws EXCEPT ![s] =
                        EndRequest([@ EXCEPT
                            !.out = Append(@, [type |-> "viewerResponse",
                                               viewerId |-> ws[s].new_viewer_id]),
                            !.viewer_id = ws[s].new_viewer_id])]
            /\ cur' = Idle
       ELSE /\ ws' = [ws EXCEPT ![s].pc = "viewer_failed"]
            /\ cur' = cur
    /\ UNCHANGED <<apiVars, viewers, websockets, sinkCreated, sinkReleased, hub_stop, kcVars, sdpVars, ipVars, jsonVars>>

\* signaling_server.py 374-378 and 243-245: the except branch sends the
\* error and raises SignalingError; the message loop catches it and sends
\* its text again.  Nothing that the request created or recorded is undone.
WsViewerFailed(s) ==
    /\ cur = WsTask(s)
    /\ ws[s].pc = "viewer_failed"
    /\ ws' = [ws EXCEPT ![s] =
                EndRequest(SendTo(SendTo(@, ErrorMessage(FailedText)),
                                  ErrorMessage(FailedText)))]
    /\ cur' = Idle
    /\ UNCHANGED <<apiVars, viewers, websockets, sinkCreated, sinkReleased, hub_stop, kcVars, sdpVars, ipVars, jsonVars>>

\* the ids the media server gives to the sinks of viewer requests
SinkIds == {NewViewerId(s, n) : s \in Socks, n \in 1 .. MaxMessages}

\* signaling_server.py 183-186: SignalingServer.stop is called at service
\* stop and takes its copy of the viewer ids
HubStopBegins ==
    /\ cur = Idle
    /\ hub_stop.pc = "none"
    /\ hub_stop' = [NoStop EXCEPT !.pc = "next",
                                  !.todo = {v.viewer_id : v \in viewers}]
    /\ cur' = StopTask
    /\ UNCHANGED <<apiVars, ws, viewers, websockets, sinkCreated, sinkReleased, kcVars, sdpVars, ipVars, jsonVars>>

\* signaling_server.py 189-190, 504-538: _cleanup_viewer for the next id of
\* the copy, up to its first suspension.  An id that is no longer in the map
\* is passed over; else the session is taken out of both maps, the release
\* of its sink is sent (unless the client is not connected) and then the
\* socket is closed if it is still open.
HubStopCleanup(vid) ==
    LET found == {v \in viewers : v.viewer_id = vid} IN
    /\ cur = StopTask
    /\ hub_stop.pc = "next"
    /\ vid \in hub_stop.todo
    /\ viewers' = PopViewer(vid)
    /\ IF found = {}
       THEN /\ hub_stop' = [hub_stop EXCEPT !.todo = @ \ {vid}]
            /\ UNCHANGED <<cur, ws, websockets, sinkReleased>>
       ELSE LET viewer == CHOOSE v \in found : TRUE
                s == viewer.websocket IN
            /\ websockets' = [websockets EXCEPT ![s] = None]
            /\ sinkReleased' = IF connected
                               THEN sinkReleased \cup {viewer.webrtc_endpoint_id}
                               ELSE sinkReleased
            /\ IF connected
               THEN /\ hub_stop' = [hub_stop EXCEPT !.todo = @ \ {vid},
                                                    !.pc = "release", !.sock = s]
                    /\ cur' = Idle
                    /\ ws' = ws
               ELSE IF ws[s].state = "open"
               THEN /\ hub_stop' = [hub_stop EXCEPT !.todo = @ \ {vid},
                                                    !.pc = "close", !.sock = s]
                    /\ ws' = [ws EXCEPT ![s].state = "closed", ![s].closed_by = "hub"]
                    /\ cur' = Idle
               ELSE /\ hub_stop' = [hub_stop EXCEPT !.todo = @ \ {vid}]
                    /\ UNCHANGED <<cur, ws>>
    /\ UNCHANGED <<apiVars, sinkCreated, kcVars, sdpVars, ipVars, jsonVars>>

\* the release call of the stop task has returned or raised; the viewer's
\* socket is closed if it is still open (531-536)
HubStopReleaseReturns ==
    /\ cur = Idle
    /\ hub_stop.pc = "release"
    /\ IF ws[hub_stop.sock].state = "open"
       THEN /\ ws' = [ws EXCEPT ![hub_stop.sock].state = "closed",
                                ![hub_stop.sock].closed_by = "hub"]
            /\ hub_stop' = [hub_stop EXCEPT !.pc = "close"]
            /\ cur' = Idle
       ELSE /\ hub_stop' = [hub_stop EXCEPT !.pc = "next", !.sock = None]
            /\ cur' = StopTask
            /\ ws' = ws
    /\ UNCHANGED <<apiVars, viewers, websockets, sinkCreated, sinkReleased, kcVars, sdpVars, ipVars, jsonVars>>

\* websocket.close() of the stop task has returned
HubStopCloseReturns ==
    /\ cur = Idle
    /\ hub_stop.pc = "close"
    /\ hub_stop' = [hub_stop EXCEPT !.pc = "next", !.sock = None]
    /\ cur' = StopTask
    /\ UNCHANGED <<apiVars, ws, viewers, websockets, sinkCreated, sinkReleased, kcVars, sdpVars, ipVars, jsonVars>>

\* signaling_server.py 192-195: the copy is exhausted; server.close() closes
\* the connections that are still open, and their tasks end through their
\* finally blocks
HubStopServerClose ==
    /\ cur = StopTask
    /\ hub_stop.pc = "next"
    /\ hub_stop.todo = {}
    /\ hub_stop' = [hub_stop EXCEPT !.pc = "done"]
    /\ ws' = [s \in Socks |->
                IF ws[s].state = "open"
                THEN [ws[s] EXCEPT !.state = "closed", !.closed_by = "hub"]
                ELSE ws[s]]
    /\ cur' = Idle
    /\ UNCHANGED <<apiVars, viewers, websockets, sinkCreated, sinkReleased, kcVars, sdpVars, ipVars, jsonVars>>

HubStopStep ==
    \/ HubStopBegins
    \/ \E vid \in SinkIds : HubStopCleanup(vid)
    \/ HubStopReleaseReturns
    \/ HubStopCloseReturns
    \/ HubStopServerClose

\* the values of data.candidate in the media server's notifications
Candidates == {"candidate:1", "candidate:2"}

IceCandidateMessage(candidate) == [type |-> "iceCandidate", candidate |-> candidate]

\* the iceCandidate messages sent so far on sockets 1 .. n
RECURSIVE IceCandidatesSent(_)
IceCandidatesSent(n) ==
    IF n = 0 THEN 0
    ELSE Cardinality({i \in 1 .. Len(ws[n].out) : ws[n].out[i].type = "iceCandidate"})
           + IceCandidatesSent(n - 1)

\* The media server gathers candidates for a sink once it has been sent the
\* sink's gatherCandidates: the request is awaited, or it has returned and
\* the response is due or was sent (the viewer id names the sink too).
GatherRequested(endpoint_id) ==
    \E s \in Socks :
        \/ /\ ws[s].viewer_webrtc_id = endpoint_id
           /\ ws[s].pc \in {"gather_candidates", "viewer_respond"}
        \/ \E i \in 1 .. Len(ws[s].out) :
              ws[s].out[i] = [type |-> "viewerResponse", viewerId |-> endpoint_id]

\* a relay that does not compare endpoint ids
ViewersOfEndpoint_Any(endpoint_id) == viewers

\* signaling_server.py 485-487: the viewers the loop over self.viewers stops
\* at: those whose webrtc_endpoint_id is the notification's object
ViewersOfEndpoint(endpoint_id) ==
    {v \in viewers : v.webrtc_endpoint_id = endpoint_id}

\* kurento_client.py 172-173, 211-227 and signaling_server.py 450-498: the
\* reader task gets an OnIceCandidate notification with its object and
\* data.candidate and awaits the hub's handler, which sends the candidate
\* to the first viewer found and swallows the error of a closed socket.  A
\* notification for an endpoint of no viewer is logged and dropped.
OnIceCandidate(endpoint_id, candidate) ==
    /\ cur = Idle
    /\ connected
    /\ GatherRequested(endpoint_id)
    /\ IceCandidatesSent(MaxSockets) < MaxIceMessages
    /\ ws' = IF ViewersOfEndpoint(endpoint_id) = {} THEN ws
             ELSE LET viewer == CHOOSE v \in ViewersOfEndpoint(endpoint_id) : TRUE IN
                  [ws EXCEPT ![viewer.websocket] =
                      SendTo(@, IceCandidateMessage(candidate))]
    /\ UNCHANGED <<cur, apiVars, viewers, websockets, sinkCreated, sinkReleased, hub_stop, kcVars, sdpVars, ipVars, jsonVars>>

\* --------------------------------------------------------------- SDPProcessor
\* One line of an SDP: what it is, its text value, its number (the SSRC of
\* an a=ssrc line) and the IPv4 literal it holds, if any.
Ln(kind, val) == [kind |-> kind, val |-> val, num |-> 0, ip |-> NoIp]
IpLn(kind, ip) == [kind |-> kind, val |-> "IN IP4", num |-> 0, ip |-> ip]
SsrcLn(ssrc, cname) == [kind |-> "a=ssrc", val |-> cname, num |-> ssrc, ip |-> NoIp]

\* settings.EXTERNAL_IP
external_ip == "203.0.113.5"

\* sdp_processor.py 440-441: the fixed SSRC values of _generate_media_info
audio_ssrc == 229236353
video_ssrc == 1607797317

\* sdp_processor.py 445-447: the generated CNAME
cname == "user1@host-1"

\* The answer of the media server's RtpEndpoint to the offer of
\* build_custom_sdp_offer (sdp_processor.py 79-107): both media sections,
\* with the server's own address, SSRCs and CNAME.
FullAnswer ==
    << IpLn("o=", "10.0.0.7"),
       IpLn("c=", "10.0.0.7"),
       Ln("m=", "audio"),
       SsrcLn(1111, "kms"),
       Ln("m=", "video"),
       Ln("a=rtpmap", "H264"),
       Ln("a=rtcp-fb", "goog-remb"),
       Ln("a=", "recvonly"),
       Ln("a=direction", "passive"),
       SsrcLn(2222, "kms") >>

\* the attribute lines a media server may leave out of its answer: the
\* SSRC lines, the H264 payload (video refused), REMB feedback, the two
\* direction lines
OptionalLines == {4, 6, 7, 8, 9, 10}

\* the lines of sdp at the positions in keep, in their order
RECURSIVE KeepLines(_, _, _)
KeepLines(sdp, keep, i) ==
    IF i > Len(sdp) THEN <<>>
    ELSE (IF i \in keep THEN <<sdp[i]>> ELSE <<>>) \o KeepLines(sdp, keep, i + 1)

\* the answers processOffer may return
Answers ==
    {KeepLines(FullAnswer, (1 .. Len(FullAnswer)) \ left_out, 1) :
        left_out \in SUBSET OptionalLines}

\* the first position after i of an a=ssrc line, or 0
FirstSsrcAfter(sdp, i) ==
    LET found == {j \in (i + 1) .. Len(sdp) : sdp[j].kind = "a=ssrc"} IN
    IF found = {} THEN 0 ELSE CHOOSE j \in found : \A k \in found : j <= k

\* sdp_processor.py 160-175: re.sub(r'(m=<media>.*?)a=ssrc:(\d+)', ..., count=1,
\* flags=re.DOTALL): the first a=ssrc line that follows the first m=<media>
\* line, in whatever section it is, gets the given SSRC
ReplaceSsrc(sdp, media, ssrc) ==
    LET ms == {i \in 1 .. Len(sdp) : sdp[i].kind = "m=" /\ sdp[i].val = media}
        m == IF ms = {} THEN 0 ELSE CHOOSE i \in ms : \A k \in ms : i <= k
        j == IF m = 0 THEN 0 ELSE FirstSsrcAfter(sdp, m) IN
    IF j = 0 THEN sdp ELSE [sdp EXCEPT ![j].num = ssrc]

\* sdp_processor.py 177: every cname:<token> gets the generated CNAME
ReplaceCname(sdp, name) ==
    [i \in 1 .. Len(sdp) |->
        IF sdp[i].kind = "a=ssrc" THEN [sdp[i] EXCEPT !.val = name] ELSE sdp[i]]

\* sdp_processor.py 180-183: the three x-skl attributes are appended
AppendXSkl(sdp, a_ssrc, v_ssrc, name) ==
    sdp \o << [Ln("a=x-skl-ssrca", "") EXCEPT !.num = a_ssrc],
              [Ln("a=x-skl-ssrcv", "") EXCEPT !.num = v_ssrc],
              Ln("a=x-skl-cname", name) >>

\* sdp_processor.py 186-187: every dotted quad becomes the external address
ReplaceIps(sdp, ip) ==
    [i \in 1 .. Len(sdp) |->
        IF sdp[i].ip # NoIp THEN [sdp[i] EXCEPT !.ip = ip] ELSE sdp[i]]

\* sdp_processor.py 191-209: a=direction:passive is put after the first
\* a=recvonly of each video section.  in_video and direction_added are the
\* loop's flags before line i.
RECURSIVE AddDirection(_, _, _, _)
AddDirection(sdp, i, in_video, direction_added) ==
    IF i > Len(sdp) THEN <<>>
    ELSE LET line == sdp[i]
             video == IF line.kind = "m=" THEN line.val = "video" ELSE in_video
             added == IF line.kind = "m=" /\ line.val = "video" THEN FALSE
                      ELSE direction_added
             add == video /\ line = Ln("a=", "recvonly") /\ ~added IN
         (IF add THEN <<line, Ln("a=direction", "passive")>> ELSE <<line>>)
             \o AddDirection(sdp, i + 1, video, added \/ add)

\* sdp_processor.py 121-213: SDPProcessor.enhance_answer
enhance_answer(answer, ip, a_ssrc, v_ssrc, name) ==
    AddDirection(
        ReplaceIps(
            AppendXSkl(
                ReplaceCname(
                    ReplaceSsrc(ReplaceSsrc(answer, "audio", a_ssrc), "video", v_ssrc),
                    name),
                a_ssrc, v_ssrc, name),
            ip),
        1, FALSE, FALSE)

\* sdp_processor.py 335-362: the checks of validate_sdp_answer
validate_sdp_answer(sdp) ==
    LET has(kind, val) == \E i \in 1 .. Len(sdp) : sdp[i].kind = kind /\ sdp[i].val = val
        hasKind(kind) == \E i \in 1 .. Len(sdp) : sdp[i].kind = kind IN
    [has_goog_remb |-> has("a=rtcp-fb", "goog-remb"),
     has_x_skl_ssrca |-> hasKind("a=x-skl-ssrca"),
     has_x_skl_ssrcv |-> hasKind("a=x-skl-ssrcv"),
     has_x_skl_cname |-> hasKind("a=x-skl-cname"),
     has_audio_media |-> has("m=", "audio"),
     has_video_media |-> has("m=", "video"),
     has_h264 |-> has("a=rtpmap", "H264")]

\* ------------------------------------------------- network-IP selection
\* settings.LOCAL_IP and settings.LOCAL_NETWORK_PREFIX (main.py 108-110)
local_ip == "192.168.199.10"
local_network_prefix == <<"1", "9", "2", ".", "1", "6", "8", ".", "1", "9", "9">>

\* the texts the selection compares with
Text127001 == <<"1", "2", "7", ".", "0", ".", "0", ".", "1">>
TextLocalhost == <<"l", "o", "c", "a", "l", "h", "o", "s", "t">>
TextUnknown == <<"u", "n", "k", "n", "o", "w", "n">>
TextV6Loopback == <<":", ":", "1">>

\* str.startswith
StartsWith(text, prefix) ==
    Len(text) >= Len(prefix) /\ SubSeq(text, 1, Len(prefix)) = prefix

\* str.split(',')[0]: the characters before the first comma
FirstField(text) ==
    LET commas == {i \in 1 .. Len(text) : text[i] = ","} IN
    IF commas = {} THEN text
    ELSE SubSeq(text, 1, (CHOOSE i \in commas : \A k \in commas : i <= k) - 1)

\* str.strip(): without its leading and trailing blanks
RECURSIVE Strip(_)
Strip(text) ==
    IF text = <<>> THEN text
    ELSE IF Head(text) = " " THEN Strip(Tail(text))
    ELSE IF text[Len(text)] = " " THEN Strip(SubSeq(text, 1, Len(text) - 1))
    ELSE text

\* api_server.py 487-489: the first X-Forwarded-For token, or else
\* request.remote, or else 'unknown'.  headers.get gives '' for a header
\* that is absent; request.remote may be None (NoText).
ViewerIp(remote, xff) ==
    LET token == IF xff = NoHeader THEN NoText ELSE Strip(FirstField(xff)) IN
    IF token # NoText THEN token
    ELSE IF remote # NoText THEN remote
    ELSE TextUnknown

\* api_server.py 492: a string prefix, or one of two literal strings
is_local(viewer_ip) ==
    \/ StartsWith(viewer_ip, local_network_prefix)
    \/ viewer_ip \in {Text127001, TextLocalhost}

\* api_server.py 472-502: _get_camera_ip_for_request
get_camera_ip_for_request(remote, xff) ==
    IF is_local(ViewerIp(remote, xff)) THEN local_ip ELSE external_ip

\* the peer addresses and X-Forwarded-For headers of the requests
Remotes ==
    { <<"1", "9", "2", ".", "1", "6", "8", ".", "1", "9", "9", ".", "4", "2">>, <<"2", "0", "3", ".", "0", ".", "1", "1", "3", ".", "9">>, <<"1", "2", "7", ".", "0", ".", "0", ".", "1">>, <<"1", "2", "7", ".", "0", ".", "0", ".", "2">>, <<":", ":", "1">> }

ForwardedFors ==
    { NoHeader, <<"1", "9", "2", ".", "1", "6", "8", ".", "1", "9", "9", ".", "4", "2">>, <<"2", "0", "3", ".", "0", ".", "1", "1", "3", ".", "9", ",", " ", "1", "9", "2", ".", "1", "6", "8", ".", "1", "9", "9", ".", "4", "2">>, <<" ", "1", "2", "7", ".", "0", ".", "0", ".", "1", " ", ",", "2", "0", "3", ".", "0", ".", "1", "1", "3", ".", "9">>, <<":", ":", "1">> }

\* api_server.py 303-316: the POST start handler selects the IP and
\* constructs the StreamManager with it as its external_ip
SelectCameraIp(remote, xff) ==
    /\ camera_ip = NoIp
    /\ request_remote' = remote
    /\ request_xff' = xff
    /\ camera_ip' = get_camera_ip_for_request(remote, xff)
    /\ UNCHANGED <<cur, apiVars, hubVars, kcVars, sdpVars, jsonVars>>

\* stream_manager.py 203-208: processOffer returns its answer
ProcessOfferReturns(answer) ==
    /\ camera_ip # NoIp
    /\ sdp_answer = NoSdp
    /\ sdp_answer' = answer
    /\ UNCHANGED <<cur, apiVars, hubVars, kcVars, sdp_offer, play_sdp, ipVars, jsonVars>>

\* stream_manager.py 222-228: step 6 of start_stream; nothing validates the
\* result
EnhanceAnswer ==
    /\ sdp_answer # NoSdp
    /\ sdp_offer = NoSdp
    /\ sdp_offer' = enhance_answer(sdp_answer, camera_ip, audio_ssrc, video_ssrc, cname)
    /\ UNCHANGED <<cur, apiVars, hubVars, kcVars, sdp_answer, play_sdp, ipVars, jsonVars>>

\* stream_manager.py 230-232, 373-396: step 7; the play command carries
\* self.sdp_offer
PublishPlaySdp(o) ==
    /\ sdp_offer # NoSdp
    /\ play_sdp = NoSdp
    /\ PublishReturnsNormally(o)
    /\ play_sdp' = <<[messageType |-> "play", sdpOffer |-> sdp_offer]>>
    /\ UNCHANGED <<cur, apiVars, hubVars, kcVars, sdp_answer, sdp_offer, ipVars, jsonVars>>

\* ---------------------------------------------------------- the JSON envelope
\* the characters of the SDP strings: a letter, CR, LF, the backslash, the
\* double quote, and the letters that name CR and LF in an escape
Chars == {"a", "\r", "\n", "\\", "\"", "r", "n"}

\* the SDP strings of one to MaxTextLen characters
RECURSIVE TextsOfLen(_)
TextsOfLen(n) ==
    IF n = 0 THEN {<<>>}
    ELSE {Append(t, c) : t \in TextsOfLen(n - 1), c \in Chars}

Texts == UNION {TextsOfLen(n) : n \in 1 .. MaxTextLen}

\* an encoder that leaves the backslash as it is
EscapeChar_Raw(c) ==
    IF c = "\"" THEN <<"\\", "\"">>
    ELSE IF c = "\n" THEN <<"\\", "n">>
    ELSE IF c = "\r" THEN <<"\\", "r">>
    ELSE <<c>>

\* json.dumps (stream_manager.py 390) writes a string's quote, backslash
\* and control characters as two-character escapes
EscapeChar(c) ==
    IF c = "\"" THEN <<"\\", "\"">>
    ELSE IF c = "\\" THEN <<"\\", "\\">>
    ELSE IF c = "\n" THEN <<"\\", "n">>
    ELSE IF c = "\r" THEN <<"\\", "r">>
    ELSE <<c>>

RECURSIVE EscapeText(_)
EscapeText(text) ==
    IF text = <<>> THEN <<>>
    ELSE EscapeChar(Head(text)) \o EscapeText(Tail(text))

\* the payload up to the value of sdpOffer, and after it
PayloadHead == <<"{", "\"", "s", "d", "p", "O", "f", "f", "e", "r", "\"", ":", " ", "\"">>
PayloadTail == <<"\"", "}">>

\* stream_manager.py 374-390: json.dumps(message), the SDP not pre-escaped
json_dumps(text) == PayloadHead \o EscapeText(text) \o PayloadTail

\* the character an escape stands for
Unescaped(c) ==
    IF c = "n" THEN "\n" ELSE IF c = "r" THEN "\r" ELSE c

\* json.loads reads a string value up to its closing quote
RECURSIVE DecodeString(_)
DecodeString(chars) ==
    IF chars = <<>> THEN <<>>
    ELSE IF Head(chars) = "\"" THEN <<>>
    ELSE IF Head(chars) = "\\" /\ Len(chars) >= 2
         THEN <<Unescaped(chars[2])>> \o DecodeString(SubSeq(chars, 3, Len(chars)))
    ELSE <<Head(chars)>> \o DecodeString(Tail(chars))

\* test_sdp_bytes.py 32-33: json.loads(payload)["sdpOffer"]
json_loads(payload) ==
    DecodeString(SubSeq(payload, Len(PayloadHead) + 1, Len(payload)))

\* stream_manager.py 374-382: the play message gets an SDP string
ComposePlay(text) ==
    /\ sdp_text = NoText
    /\ sdp_text' = text
    /\ UNCHANGED <<cur, apiVars, hubVars, kcVars, sdpVars, ipVars, json_payload, received_sdp>>

\* stream_manager.py 388-392: the message is encoded and published
JsonDumps ==
    /\ sdp_text # NoText
    /\ json_payload = NoText
    /\ json_payload' = json_dumps(sdp_text)
    /\ UNCHANGED <<cur, apiVars, hubVars, kcVars, sdpVars, ipVars, sdp_text, received_sdp>>

\* test_sdp_bytes.py 32-33: the camera decodes the payload
CameraLoads ==
    /\ json_payload # NoText
    /\ received_sdp = NoText
    /\ received_sdp' = json_loads(json_payload)
    /\ UNCHANGED <<cur, apiVars, hubVars, kcVars, sdpVars, ipVars, sdp_text, json_payload>>

\* ------------------------------------------------------------ specifications
StartStep(r, outcomes) ==
    \/ StartCheck409(r)
    \/ StartCheck(r)
    \/ \E mqttOk \in BOOLEAN : StartCreate(r, mqttOk)
    \/ \E ok \in BOOLEAN : StartCallReturns(r, ok)
    \/ \E o \in outcomes, kaOk \in BOOLEAN : PlayPublished(r, o, kaOk)
    \/ StartStore(r)
    \/ StartFailed(r)
    \/ StartReleaseReturns(r)
    \/ StartRaise(r)

StopStep(r, outcomes) ==
    \/ StopCheck(r)
    \/ StopEnter(r)
    \/ StopTaskJoined(r)
    \/ StopSleepDone(r)
    \/ StopCommand(r)
    \/ \E o \in outcomes : StopPublished(r, o)
    \/ StopCleanup(r)
    \/ StopReleaseReturns(r)
    \/ StopFinish(r)
    \/ StopStreamReturns(r)

PumpStep(m, limit, outcomes) ==
    \/ PumpWake(m, limit)
    \/ \E o \in outcomes : PumpPublishReturns(m, o)

\* The Control API under any interleaving of start, stop and get requests.
Next ==
    \/ KurentoDisconnect
    \/ \E kind \in {"start", "stop", "get"}, c \in Cameras :
          HttpArrive(MaxRequests, kind, c)
    \/ \E r \in Reqs : GetStream(r) \/ StartStep(r, Answered) \/ StopStep(r, Answered)
    \/ \E m \in Mgrs : PumpStep(m, MaxKeepalives, Answered)

Spec == Init /\ [][Next]_vars

\* One camera's session with a pump that lives long enough to exhaust its
\* error budget.
NextPump ==
    \/ KurentoDisconnect
    \/ \E kind \in {"start", "stop"}, c \in Cameras :
          HttpArrive(PumpRequests, kind, c)
    \/ \E r \in Reqs : StartStep(r, Answered) \/ StopStep(r, Answered)
    \/ \E m \in Mgrs : PumpStep(m, PumpKeepalives, Answered)

SpecPump == Init /\ [][NextPump]_vars

HubStep(s, limit) ==
    \/ WsConnect(s)
    \/ WsClientClose(s)
    \/ \E type \in {"viewer", "stop"}, c \in Cameras, sid \in StreamIds :
          WsRecv(s, limit, type, c, sid)
    \/ WsViewerRequest(s)
    \/ \E ok \in BOOLEAN : WsCallReturns(s, ok)
    \/ WsViewerRespond(s)
    \/ WsViewerFailed(s)
    \/ WsStopRequest(s)
    \/ WsReleaseReturns(s)
    \/ WsCloseReturns(s)
    \/ WsFinally(s)

\* The state Spec reaches when the first POST start has succeeded: the
\* camera's manager is stored and ACTIVE with its pump started.
StreamActive ==
    /\ cur = Idle
    /\ connected = TRUE
    /\ streams = [c \in Cameras |-> 1]
    /\ mgr = [m \in Mgrs |->
                IF m = 1
                THEN [StreamManagerInit("CAM1", TRUE) EXCEPT
                          !.state = "active", !.pipeline_id = 1,
                          !.rtp_endpoint_id = 1, !.has_pump = TRUE,
                          !.start_attempts = 1]
                ELSE NoMgr]
    /\ pump = [m \in Mgrs |-> IF m = 1 THEN KeepaliveStarted ELSE NoPump]
    /\ req = [r \in Reqs |->
                IF r = 1
                THEN [NoReq EXCEPT !.kind = "start", !.pc = "done", !.mgr = 1,
                                   !.status = 201]
                ELSE NoReq]
    /\ nextReq = 2
    /\ msReleased = {}
    /\ mqttLog = {<<"play", 1, "acked">>}

InitHub ==
    /\ StreamActive
    /\ ws = [s \in Socks |-> NoSock]
    /\ viewers = {}
    /\ websockets = [s \in Socks |-> None]
    /\ sinkCreated = {}
    /\ sinkReleased = {}
    /\ hub_stop = NoStop
    /\ KurentoClientInit
    /\ SdpInit
    /\ JsonInit

\* One camera's active stream and its stop, while viewers connect, attach,
\* stop and disconnect.  The media-server connection stays up; its calls
\* still fail with error replies and timeouts.
NextHub ==
    \/ \E c \in Cameras : HttpArrive(HubRequests, "stop", c)
    \/ \E r \in Reqs : StopStep(r, Answered)
    \/ \E s \in Socks : HubStep(s, MaxMessages)

SpecHub == InitHub /\ [][NextHub]_vars

\* The viewers of one camera's active stream while the media server sends
\* OnIceCandidate notifications at any time.
NextIce ==
    \/ \E s \in Socks : HubStep(s, IceRequests)
    \/ \E e \in SinkIds, candidate \in Candidates : OnIceCandidate(e, candidate)

SpecIce == InitHub /\ [][NextIce]_vars

\* The viewers of one camera's active stream while the service is stopped:
\* SignalingServer.stop runs next to the sockets' own tasks.
NextStop ==
    \/ KurentoDisconnect
    \/ \E s \in Socks : HubStep(s, StopRequests)
    \/ HubStopStep

SpecStop == InitHub /\ [][NextStop]_vars

\* The Control API while a holder of a manager calls start_stream on it
\* again, in whatever state the manager is.
NextAgain ==
    \/ KurentoDisconnect
    \/ \E kind \in {"start", "stop"}, c \in Cameras :
          HttpArrive(AgainRequests, kind, c)
    \/ \E r \in Reqs : StartStep(r, Answered) \/ StopStep(r, Answered)
    \/ \E m \in Mgrs : PumpStep(m, MaxKeepalives, Answered)
    \/ \E m \in Mgrs : StartStreamAgain(AgainRequests, m)

SpecAgain == Init /\ [][NextAgain]_vars

\* The SDP of one start_stream, for every answer the media server may give.
NextSdp ==
    \/ \E remote \in Remotes, xff \in ForwardedFors : SelectCameraIp(remote, xff)
    \/ \E answer \in Answers : ProcessOfferReturns(answer)
    \/ EnhanceAnswer
    \/ \E o \in PublishOutcomes : PublishPlaySdp(o)

SpecSdp == Init /\ [][NextSdp]_vars

\* One play message on its way to the camera, for every SDP string.
NextJson ==
    \/ \E text \in Texts : ComposePlay(text)
    \/ JsonDumps
    \/ CameraLoads

SpecJson == Init /\ [][NextJson]_vars

\* The sessions of one camera with a broker that may also leave a QoS 1
\* message unacknowledged for longer than the publisher waits.
NextPublish ==
    \/ KurentoDisconnect
    \/ \E kind \in {"start", "stop"}, c \in Cameras :
          HttpArrive(PublishRequests, kind, c)
    \/ \E r \in Reqs : StartStep(r, PublishOutcomes) \/ StopStep(r, PublishOutcomes)
    \/ \E m \in Mgrs : PumpStep(m, PublishKeepalives, PublishOutcomes)

SpecPublish == Init /\ [][NextPublish]_vars

CallStep(k) ==
    \/ SendRequest(k)
    \/ \E ok \in BOOLEAN : SendJsonReturns(k, ok)
    \/ TimerFires(k)
    \/ CallResumes(k)

\* The media-server client under any interleaving of calls, responses,
\* timeouts, the loss of the connection and the close at service stop.
NextKurento ==
    \/ KurentoDisconnect
    \/ \E k \in Calls : CallStep(k)
    \/ \E id \in Calls, isError \in BOOLEAN : RpcResponse(id, isError)
    \/ CleanupBegins
    \/ CleanupRejects

\* The event loop runs every task that is ready and fires every timer, and
\* a send on the socket returns or raises: a caller does not stay for ever
\* in a step it can take.
FairKurento ==
    \A k \in Calls :
        /\ WF_vars(\E ok \in BOOLEAN : SendJsonReturns(k, ok))
        /\ WF_vars(TimerFires(k))
        /\ WF_vars(CallResumes(k))

SpecKurento == Init /\ [][NextKurento]_vars /\ FairKurento

\* start_stream under start requests only, with a media server that may be
\* lost and a broker that may not acknowledge.  The event loop runs every
\* task that is ready, the timeout of a media-server call fires and
\* wait_for_publish returns when its 2 s are over: a start request does not
\* stay for ever in a step it can take.
NextStart ==
    \/ KurentoDisconnect
    \/ \E c \in Cameras : HttpArrive(MaxRequests, "start", c)
    \/ \E r \in Reqs : StartStep(r, PublishOutcomes)

FairStart == \A r \in Reqs : WF_vars(StartStep(r, PublishOutcomes))

SpecStart == Init /\ [][NextStart]_vars /\ FairStart

\* The media-server client whose callers may be cancelled while they wait,
\* with notifications arriving between the responses.
NextCancel ==
    \/ \E k \in Calls : CallStep(k) \/ CallCancelled(k)
    \/ \E id \in Calls, isError \in BOOLEAN : RpcResponse(id, isError)
    \/ \E n \in Notifications : EventArrives(n)
    \/ \E h \in Handlers : HandlerCalled(h, FALSE)

SpecCancel == Init /\ [][NextCancel]_vars

\* The media-server client while notifications arrive between the responses
\* and the listeners may raise.
NextEvents ==
    \/ \E k \in Calls : CallStep(k)
    \/ \E id \in Calls, isError \in BOOLEAN : RpcResponse(id, isError)
    \/ \E n \in Notifications : EventArrives(n)
    \/ \E h \in Handlers, raises \in BOOLEAN : HandlerCalled(h, raises)

SpecEvents == Init /\ [][NextEvents]_vars

\* The sessions of one camera and their pumps while the holder of a sender
\* calls stop() on it.
NextPumpStop ==
    \/ \E kind \in {"start", "stop"}, c \in Cameras :
          HttpArrive(PumpRequests, kind, c)
    \/ \E r \in Reqs : StartStep(r, Answered) \/ StopStep(r, Answered)
    \/ \E m \in Mgrs : PumpStep(m, PumpKeepalives, Answered)
    \/ \E m \in Mgrs : KeepaliveStopNotRunning(m)

SpecPumpStop == Init /\ [][NextPumpStop]_vars

\* ------------------------------------------------------------------- claims
Range(f) == {f[i] : i \in DOMAIN f}

LiveStates == {"starting", "active", "stopping"}

SessionsOf(c) == {m \in Mgrs : mgr[m].state # "none" /\ mgr[m].camera_id = c}

\* C1: for every camera, at most one StreamSession is in Starting, Active or
\* Stopping, in every reachable state.
C1_AtMostOneLiveSession ==
    \A c \in Cameras :
        Cardinality({m \in SessionsOf(c) : mgr[m].state \in LiveStates}) <= 1

\* the pump's loop task has ended by itself (it was not cancelled by stop())
\* after its error count reached the limit
PumpDied(m) ==
    /\ mgr[m].has_pump
    /\ pump[m].task = "done"
    /\ pump[m].error_count >= MaxKeepaliveErrors

\* the pump cleared its own running flag: no stop_stream has touched it
PumpSelfStopped(m) ==
    /\ mgr[m].has_pump
    /\ mgr[m].state = "active"
    /\ ~pump[m].running

C3_StopsOnlyOnFiveInARow ==
    \A m \in Mgrs :
        PumpSelfStopped(m) => pump[m].consecutive >= MaxKeepaliveErrors

\* C4: once the pump of a session has failed fatally the session leaves
\* Active (to Error, then Stopping and Stopped) without any client request,
\* and a Stopped session's pipeline has had its release sent.
C4_FatalPumpStopsSession ==
    \A m \in Mgrs :
        PumpDied(m) => mgr[m].state \in {"error", "stopping", "stopped"}

\* a session of the camera is Stopped, and none of the camera's sessions is
\* in any state but Stopped or Error
CameraStopped(c) ==
    /\ \E m \in SessionsOf(c) : mgr[m].state = "stopped"
    /\ \A m \in SessionsOf(c) : mgr[m].state \in {"stopped", "error"}

\* C5: a StreamSession that has reached Stopped is not in the session map
\* when its handler gives up the event loop, and a POST stop or GET for a
\* camera whose sessions are Stopped is answered 404.
C5_StoppedIsGone ==
    [][/\ cur' = Idle =>
            \A m \in Mgrs : mgr'[m].state = "stopped" =>
                \A c \in Cameras : streams'[c] # m
       /\ \A r \in Reqs :
            (/\ cur = HttpTask(r)
             /\ req[r].pc \in {"stop_check", "get"}
             /\ CameraStopped(req[r].camera))
            => (req'[r].pc = "done" /\ req'[r].status = 404)]_vars

\* a session was stopped by a POST stop that answered 200, and a later POST
\* stop or GET for its camera was answered 404
C5_Witness ==
    \E m \in Mgrs, r0 \in Reqs, r1 \in Reqs :
        /\ mgr[m].state = "stopped"
        /\ req[r0].kind = "stop" /\ req[r0].mgr = m /\ req[r0].status = 200
        /\ r1 > r0 /\ req[r1].kind \in {"stop", "get"}
        /\ req[r1].camera = mgr[m].camera_id /\ req[r1].status = 404

\* the viewers in the viewer map whose sink was created on the pipeline of
\* session m
AttachedTo(m) == {v \in viewers : v.pipeline = m}

\* C6: when a StreamSession is Stopped, every ViewerSession attached to it
\* has been released: none is left in the viewer map, holding a sink whose
\* release has not been sent.
C6_StopReleasesViewers ==
    \A m \in Mgrs :
        mgr[m].state = "stopped" =>
            \A v \in AttachedTo(m) : v.webrtc_endpoint_id \in sinkReleased

\* C7: every ViewerSession in the viewer map has a sink id, and its camera id
\* names a stored StreamSession that is Active.
C7_ViewersOfActiveOnly ==
    \A v \in viewers :
        /\ v.webrtc_endpoint_id # None
        /\ streams[v.camera_id] # None
        /\ mgr[streams[v.camera_id]].state = "active"

\* C8: for every camera, the viewers in the viewer map attached to the
\* camera's stored StreamSession number at most max_viewers_per_stream.
C8_ViewerCap ==
    \A c \in Cameras :
        streams[c] # None =>
            Cardinality({v \in AttachedTo(streams[c]) : v.camera_id = c})
                <= max_viewers_per_stream

\* the camera's stored session has the cap's number of viewers attached
CapReached(c) ==
    /\ streams[c] # None
    /\ Cardinality({v \in AttachedTo(streams[c]) : v.camera_id = c})
           >= max_viewers_per_stream

\* the last thing the hub sent on the socket is the viewer-cap error
CapRejected(sock) ==
    /\ sock.out # <<>>
    /\ sock.out[Len(sock.out)] = ErrorMessage(MaxViewersText)

\* C9: a viewer request that arrives when the camera's stream has the cap's
\* number of viewers is answered with the error "Maximum viewers (<cap>)
\* reached for stream", creates no sink and leaves the viewers and their
\* sinks as they are; and the hub closes the socket of a viewer it has
\* rejected so, rather than reading its next message.
C9_CapRejectsAndDisconnects ==
    /\ [][\A s \in Socks :
             (/\ cur = WsTask(s)
              /\ ws[s].pc = "viewer_request"
              /\ CapReached(ws[s].camera_id))
             => (/\ ws'[s].out = Append(ws[s].out, ErrorMessage(MaxViewersText))
                 /\ ws'[s].pc \notin Range(ViewerCalls)
                 /\ UNCHANGED <<viewers, websockets, sinkCreated, sinkReleased>>)]_vars
    /\ [](\A s \in Socks :
             (cur = Idle /\ ws[s].pc = "recv" /\ CapRejected(ws[s]))
                 => ws[s].state = "closed")

\* C10: POST start for a camera whose stored session is Active is answered
\* 409 and changes nothing: not the session map, no session, no pump, nothing
\* sent to the media server or to the broker.
C10_Start409ChangesNothing ==
    [][\A r \in Reqs :
          (/\ cur = HttpTask(r)
           /\ req[r].pc = "start_check"
           /\ streams[req[r].camera] # None
           /\ mgr[streams[req[r].camera]].state = "active")
          => (/\ req'[r].pc = "done"
              /\ req'[r].status = 409
              /\ UNCHANGED <<connected, streams, mgr, pump, msReleased, mqttLog>>)]_vars

\* a POST start has been answered 409 while the camera's session is Active
C10_Witness ==
    \E r \in Reqs :
        /\ req[r].kind = "start" /\ req[r].status = 409
        /\ streams[req[r].camera] # None
        /\ mgr[streams[req[r].camera]].state = "active"

\* C11: when the media-server connection is lost (and not closed by the
\* service), no request is left pending: the pending set is empty and no
\* caller still waits on a future that is not done.
C11_LostConnectionFailsPending ==
    (~connected /\ closing = "none") =>
        \A k \in Calls :
            call[k].pc = "waiting" =>
                /\ call[k].request_id \notin pending_requests
                /\ future[call[k].request_id] = "Connection closed"

StartHasFailed(r) ==
    /\ req[r].kind = "start"
    /\ req[r].mgr = r
    /\ mgr[r].state # "none"
    /\ req[r].pc = "done"
    /\ req[r].status = 500

\* C13: a start that fails leaves its session in Error with no pipeline and
\* no receiver handle, without a keepalive pump, and not stored in the
\* session map, and answers 500; and the step that handles the failure sends
\* the release of the pipeline created so far (while the client is
\* connected: a release that cannot be sent is logged and skipped).
C13_FailedStartCleansUp ==
    /\ [](\A r \in Reqs :
            StartHasFailed(r) =>
                /\ mgr[r].state = "error"
                /\ mgr[r].pipeline_id = None
                /\ mgr[r].rtp_endpoint_id = None
                /\ ~mgr[r].has_pump
                /\ ~pump[r].running
                /\ \A c \in Cameras : streams[c] # r)
    /\ [][\A r \in Reqs :
            (/\ cur = HttpTask(r)
             /\ req[r].pc = "start_failed"
             /\ mgr[req[r].mgr].pipeline_id # None
             /\ connected)
            => mgr[req[r].mgr].pipeline_id \in msReleased']_vars

\* a start failed after its pipeline was created, the pipeline's release was
\* sent and the request was answered 500
C13_Witness ==
    \E r \in Reqs : StartHasFailed(r) /\ r \in msReleased

\* C14: a publish to the play or keepalive topic that is reported to its
\* caller as successful was acknowledged by the broker within the 2 s.
C14_ReportedMeansAcked ==
    \A e \in mqttLog : e[1] \in {"play", "keepalive"} => e[3] = "acked"

\* the viewer id (which is also the sink's id) of an attach that has ended
\* without a viewerResponse: no request of any socket is still working on it
\* and no socket was sent its response
AttachFailed(id) ==
    /\ id \in sinkCreated
    /\ \A s \in Socks :
          /\ ws[s].new_viewer_id # id
          /\ \A i \in 1 .. Len(ws[s].out) :
                ws[s].out[i] # [type |-> "viewerResponse", viewerId |-> id]

\* C15: when a step of the viewer attach has failed, the viewer is cleaned
\* up: no ViewerSession of the attach remains in the viewer map and the sink
\* created for it is released (the media server being reachable).
C15_FailedAttachCleanedUp ==
    \A id \in sinkCreated :
        (AttachFailed(id) /\ connected) =>
            /\ \A v \in viewers : v.viewer_id # id
            /\ id \in sinkReleased

\* C16: the hub sends a viewer's viewerResponse before any iceCandidate of
\* that viewer: whenever a notification for a recorded viewer's sink is
\* relayed on the viewer's socket, the socket has already been sent the
\* viewerResponse that carries this viewer's id.
C16_ResponseBeforeCandidates ==
    [][\A e \in SinkIds, candidate \in Candidates :
          (OnIceCandidate(e, candidate) /\ ws' # ws) =>
              \A v \in ViewersOfEndpoint(e) :
                  \E i \in 1 .. Len(ws[v.websocket].out) :
                      ws[v.websocket].out[i] =
                          [type |-> "viewerResponse", viewerId |-> v.viewer_id]]_vars

\* C17: an OnIceCandidate notification whose object is the sink of a
\* recorded viewer puts exactly one iceCandidate message with its
\* data.candidate on that viewer's socket (a closed socket carries nothing)
\* and nothing on any other socket; a notification whose object is the sink
\* of no recorded viewer sends nothing.
C17_CandidateGoesToItsViewer ==
    [][\A e \in SinkIds, candidate \in Candidates :
          OnIceCandidate(e, candidate) =>
              \A s \in Socks :
                  ws'[s].out =
                      IF /\ \E v \in viewers : v.webrtc_endpoint_id = e /\ v.websocket = s
                         /\ ws[s].state = "open"
                      THEN Append(ws[s].out,
                                  [type |-> "iceCandidate", candidate |-> candidate])
                      ELSE ws[s].out]_vars

\* two viewers are recorded on two sockets, and only one of the sockets has
\* been sent a candidate
C17_Witness ==
    \E v1 \in viewers, v2 \in viewers :
        /\ v1.websocket # v2.websocket
        /\ IceCandidateMessage("candidate:2") \in Range(ws[v1.websocket].out)
        /\ \A c \in Candidates : IceCandidateMessage(c) \notin Range(ws[v2.websocket].out)


\* C18: a stop_stream invoked on a session that is neither Active nor Error
\* is refused: it issues no stop publish and no pipeline release.  (The
\* state such a stop found is kept in stop_from; stop_publish and
\* stop_release are the places where the publish and the release it issued
\* are in flight.)
C18_RefusedStopIssuesNothing ==
    \A r \in Reqs :
        req[r].pc \in {"stop_publish", "stop_release"} =>
            req[r].stop_from \in {"active", "error"}

\* start_stream is called again on manager m, which is not IDLE
StartedAgain(m) ==
    /\ cur = Idle
    /\ mgr[m].state \notin {"none", "idle"}
    /\ nextReq' = nextReq + 1
    /\ req'[nextReq].kind = "enter"
    /\ req'[nextReq].mgr = m

\* C19: start_stream on a session that is not Idle raises and changes
\* nothing: state, handles, counters and pump stay as they were, and nothing
\* is sent to the media server or the broker.
C19_StartOnNonIdleRefused ==
    [][\A m \in Mgrs :
          StartedAgain(m) =>
              /\ req'[nextReq].pc = "raised"
              /\ cur' = Idle
              /\ UNCHANGED <<mgr, pump, streams, msReleased, mqttLog, connected,
                             hubVars, kcVars>>]_vars

\* start_stream has been refused on a session that is active with its pump
\* running, and on one that is stopped
C19_Witness ==
    \E r1 \in Reqs, r2 \in Reqs :
        /\ req[r1].kind = "enter" /\ req[r1].pc = "raised"
        /\ req[r2].kind = "enter" /\ req[r2].pc = "raised"
        /\ r1 < r2
        /\ mgr[req[r2].mgr].state \in {"active", "stopped", "error"}
        /\ mgr[req[r2].mgr].start_attempts = 1

\* the IPv4 literals of an SDP
IpsOf(sdp) == {sdp[i].ip : i \in 1 .. Len(sdp)} \ {NoIp}

\* how many lines m=<media> an SDP has
MediaSections(sdp, media) ==
    Cardinality({i \in 1 .. Len(sdp) : sdp[i].kind = "m=" /\ sdp[i].val = media})

\* C20: the sdpOffer of a published play command passes the validation
\* predicate: goog-remb, the three x-skl attributes, one m=audio, one
\* m=video and H264 are there, and no IPv4 literal but the selected one.
C20_PublishedSdpIsValid ==
    \A i \in 1 .. Len(play_sdp) :
        LET sdp == play_sdp[i].sdpOffer
            checks == validate_sdp_answer(sdp) IN
        /\ \A k \in DOMAIN checks : checks[k]
        /\ MediaSections(sdp, "audio") = 1
        /\ MediaSections(sdp, "video") = 1
        /\ IpsOf(sdp) \subseteq {camera_ip}

\* the requester's address: the first X-Forwarded-For token if there is
\* one, otherwise the peer address
Requester == ViewerIp(request_remote, request_xff)

\* the address lies in the configured local network (its leading octets are
\* the prefix) or is a loopback address (127.0.0.0/8 or ::1)
RequesterIsLocal ==
    \/ StartsWith(Requester, local_network_prefix \o <<".">>)
    \/ StartsWith(Requester, <<"1", "2", "7", ".">>)
    \/ Requester = TextV6Loopback

\* C21: the IP handed to the Stream Manager is the local IP exactly when the
\* requester's address is inside the local network or is loopback, and the
\* external IP otherwise; the rewritten SDP carries that IP and no other.
C21_LocalIpIffLocalRequester ==
    camera_ip # NoIp =>
        /\ camera_ip = IF RequesterIsLocal THEN local_ip ELSE external_ip
        /\ sdp_offer # NoSdp => IpsOf(sdp_offer) = {camera_ip}

\* C22: an SDP put as it is into the sdpOffer of the JSON payload comes out
\* of the decoded payload unchanged, character by character.
C22_JsonRoundTrip ==
    /\ json_payload # NoText => json_loads(json_payload) = sdp_text
    /\ received_sdp # NoText => received_sdp = sdp_text

\* the camera has decoded an SDP that ends in a real CRLF
C22_Witness ==
    /\ json_payload = json_dumps(<<"a", "\r", "\n">>)
    /\ received_sdp = <<"a", "\r", "\n">>

\* C23: after the connection to the media server is lost (not closed by
\* the service), the client is connected again at some later time without
\* any caller invoking connect().
C23_ReconnectsAfterLoss ==
    (~connected /\ closing = "none") ~> connected

\* the steps of start_stream in the order the claim gives them; a request's
\* pc names the step it has issued and waits for
StartOrder == <<"create_pipeline", "create_rtp", "process_offer",
                "set_max_bw", "set_min_bw", "publish_play", "start_store">>

\* the publish of manager m's play command has returned without raising
PlayReturned(m) ==
    \E o \in PublishOutcomes :
        PublishReturnsNormally(o) /\ <<"play", m, o>> \in mqttLog

\* C24: start_stream issues create MediaPipeline, create RtpEndpoint,
\* processOffer, setMaxVideoRecvBandwidth, setMinVideoRecvBandwidth, the
\* publish of play and the start of the keepalive pump one after the other,
\* each only when the one before has returned successfully, and the state
\* becomes Active only with the pump started.
C24_StartStepsSerial ==
    [][ /\ \A r \in Reqs : \A k \in 2 .. Len(StartOrder) :
             (req'[r].pc = StartOrder[k] /\ req[r].pc # StartOrder[k]) =>
                 /\ req[r].pc = StartOrder[k - 1]
                 /\ k >= 2 => mgr'[req'[r].mgr].pipeline_id # None
                 /\ k >= 3 => mgr'[req'[r].mgr].rtp_endpoint_id # None
                 /\ k = 7 => PlayReturned(req[r].mgr)'
        /\ \A m \in Mgrs :
             /\ (pump'[m].running /\ ~pump[m].running) =>
                    /\ \E r \in Reqs : req[r].pc = "publish_play" /\ req[r].mgr = m
                    /\ PlayReturned(m)'
             /\ (mgr'[m].state = "active" /\ mgr[m].state # "active") =>
                    /\ pump'[m].running
                    /\ pump'[m].task = "scheduled"
                    /\ \E r \in Reqs : req[r].pc = "publish_play" /\ req[r].mgr = m
      ]_vars

\* a start_stream has gone through all its steps: its manager is Active,
\* holds both handles, the play command is out and the pump runs
C24_Witness ==
    \E r \in Reqs :
        /\ req[r].kind = "start" /\ req[r].pc = "start_store"
        /\ mgr[req[r].mgr].state = "active"
        /\ mgr[req[r].mgr].rtp_endpoint_id # None
        /\ pump[req[r].mgr].running

\* the keepalive task of manager m is alive and has not been cancelled
PumpTaskAlive(m) == pump[m].task \in {"scheduled", "sleeping", "publishing"}

\* C25: stop_stream cancels the keepalive task and waits for it before it
\* publishes stop, releases the pipeline and sets Stopped: the state is
\* never Stopped while the keepalive task is alive.
C25_StoppedAfterPumpEnded ==
    \A m \in Mgrs : mgr[m].state = "stopped" => ~PumpTaskAlive(m)

HoldsHandles(m) == mgr[m].pipeline_id # None /\ mgr[m].rtp_endpoint_id # None
HoldsNoHandle(m) == mgr[m].pipeline_id = None /\ mgr[m].rtp_endpoint_id = None

\* C27 as the specification states it: the pipeline and receiver handles
\* of a session are non-empty exactly when its state is Starting, Active or
\* Stopping.
C27_HandlesIffLive ==
    \A m \in Mgrs :
        mgr[m].state # "none" =>
            (HoldsHandles(m) <=> mgr[m].state \in {"starting", "active", "stopping"})

\* C27, amended: a session holds a handle only in Starting, Active, Stopping
\* or Error, never a receiver without a pipeline, both handles while it is
\* Active, and none in Idle and Stopped.
C27_HandlesOnlyWhileLive ==
    \A m \in Mgrs :
        /\ ~HoldsNoHandle(m) =>
               mgr[m].state \in {"starting", "active", "stopping", "error"}
        /\ mgr[m].rtp_endpoint_id # None => mgr[m].pipeline_id # None
        /\ mgr[m].state = "active" => HoldsHandles(m)
        /\ mgr[m].state \in {"idle", "stopped"} => HoldsNoHandle(m)

\* a session that was Active and held both handles has been stopped and
\* holds none
C27_Witness ==
    \E m \in Mgrs :
        /\ mgr[m].state = "stopped"
        /\ HoldsNoHandle(m)
        /\ <<"play", m, "acked">> \in mqttLog
        /\ m \in msReleased

\* the steps of a viewer attach in the order the claim gives them, and then
\* the response; a socket's pc names the call it has issued and waits for
ViewerOrder == <<"create_webrtc", "subscribe", "set_max_send_bw",
                 "set_min_send_bw", "connect", "process_offer",
                 "gather_candidates", "viewer_respond">>

\* the ViewerSession of the request that socket s handles is in the map
Recorded(s) ==
    \E v \in viewers :
        /\ v.viewer_id = ws[s].new_viewer_id
        /\ v.websocket = s
        /\ v.webrtc_endpoint_id = ws[s].viewer_webrtc_id

\* C28: a viewer attach issues create WebRtcEndpoint, subscribe
\* OnIceCandidate, setMaxVideoSendBandwidth, setMinVideoSendBandwidth,
\* connect, processOffer and gatherCandidates in this order, each after the
\* reply to the one before, and the ViewerSession is recorded (after connect
\* has returned) before processOffer is issued.
C28_AttachStepsSerial ==
    [][ /\ \A s \in Socks : \A k \in 2 .. Len(ViewerOrder) :
             (ws'[s].pc = ViewerOrder[k] /\ ws[s].pc # ViewerOrder[k]) =>
                 /\ ws[s].pc = ViewerOrder[k - 1]
                 /\ ws'[s].viewer_webrtc_id \in sinkCreated'
                 /\ k = 6 => Recorded(s)'
        /\ \A v \in viewers' \ viewers :
             /\ ws[v.websocket].pc = "connect"
             /\ ws'[v.websocket].pc \in {"process_offer", "viewer_failed"}
      ]_vars

\* all seven calls of an attach have returned: its session is recorded and
\* the response is due
C28_Witness ==
    \E s \in Socks :
        /\ ws[s].pc = "viewer_respond"
        /\ Recorded(s)
        /\ GatherRequested(ws[s].viewer_webrtc_id)

\* C29: a viewer cleanup takes the ViewerSession out of the map before it
\* issues the release of the session's sink: no recorded session has a sink
\* whose release was issued, and a candidate that the media server reports
\* for such a sink is relayed to nobody.
C29_RemovedBeforeRelease ==
    [][ /\ \A v \in viewers' : v.webrtc_endpoint_id \notin sinkReleased'
        /\ \A e \in SinkIds, candidate \in Candidates :
             (OnIceCandidate(e, candidate) /\ e \in sinkReleased) =>
                 \A s \in Socks : ws'[s].out = ws[s].out
      ]_vars

\* the release of a viewer's sink is on its way while the media server may
\* still report candidates for it, and another viewer is recorded
C29_Witness ==
    \E s \in Socks :
        /\ ws[s].pc = "cleanup_release"
        /\ ws[s].viewer_id \in sinkReleased
        /\ GatherRequested(ws[s].viewer_id)
        /\ viewers # {}

\* a task has sent a release and waits for its reply in this step
EntersRelease ==
    \/ \E s \in Socks : ws'[s].pc = "cleanup_release" /\ ws[s].pc # "cleanup_release"
    \/ hub_stop'.pc = "release" /\ hub_stop.pc # "release"

\* C30: the cleanup of a viewer, by its stop message, by the end of its
\* socket, by the stop of the server or by several of them at once, sends
\* one release, for the sink of that viewer's session and for nothing else:
\* a step that takes a session out of the map sends the release of its sink,
\* which was not released before (a client that has lost its connection
\* raises before anything is sent), no release is sent in any other step,
\* and the pipeline and the receiver are not released.
C30_OneReleasePerViewer ==
    [][ /\ viewers \ viewers' # {} =>
             /\ Cardinality(viewers \ viewers') = 1
             /\ \A v \in viewers \ viewers' :
                  /\ v.webrtc_endpoint_id \notin sinkReleased
                  /\ v.webrtc_endpoint_id \in sinkCreated
                  /\ sinkReleased' = IF connected
                                     THEN sinkReleased \cup {v.webrtc_endpoint_id}
                                     ELSE sinkReleased
                  /\ connected => EntersRelease
        /\ sinkReleased' # sinkReleased => viewers \ viewers' # {}
        /\ EntersRelease => Cardinality(sinkReleased' \ sinkReleased) = 1
        /\ msReleased' = msReleased
      ]_vars

\* the stop of the server has run to its end and the task of a socket whose
\* viewer it cleaned up has ended through its finally block: the viewer's
\* sink is released and no session is left
C30_Witness ==
    /\ hub_stop.pc = "done"
    /\ viewers = {}
    /\ \E s \in Socks :
          /\ ws[s].pc = "end"
          /\ ws[s].viewer_id # None
          /\ ws[s].viewer_id \in sinkReleased

\* C31: the ids that send_request takes are unique and strictly increasing
\* in the order of the invocations, whatever the callers' interleaving.
C31_RequestIdsIncrease ==
    \A j \in Calls, k \in Calls :
        (j < k /\ call[j].request_id # None /\ call[k].request_id # None) =>
            call[j].request_id < call[k].request_id

\* three invocations have taken their ids while the first two still wait
C31_Witness ==
    /\ call[1].pc = "waiting" /\ call[2].pc = "waiting"
    /\ call[3].request_id = 3
    /\ {1, 2} \subseteq pending_requests

\* a future that has been completed: with a result or with an error
Completed(f) == f \notin {"none", "pending"}

\* C32: a response completes the outstanding request whose id it carries,
\* with its result or with the error of the server, in whatever order the
\* responses arrive; it changes the future of no other id, and a future
\* that has been completed is never completed again.
C32_ResponseCompletesItsRequest ==
    [][ /\ \A id \in Calls, isError \in BOOLEAN :
             RpcResponse(id, isError) =>
                 /\ \A other \in Calls \ {id} : future'[other] = future[other]
                 /\ (id \in pending_requests /\ future[id] = "pending") =>
                        future'[id] = IF isError THEN "KurentoRequestError"
                                      ELSE "result"
                 /\ id \notin pending_requests => future'[id] = future[id]
        /\ \A id \in Calls : Completed(future[id]) => future'[id] = future[id]
      ]_vars

\* the responses came in the opposite order of the requests: the second
\* request has its result while the first, a failure, came after it
C32_Witness ==
    /\ future[2] = "result"
    /\ future[1] = "KurentoRequestError"
    /\ call[2].pc = "done" /\ call[1].pc = "waiting"

\* C33: once the timeout of a call has expired, a reply that arrives for
\* its id is dropped: it changes no future, no other pending request and
\* not the connected state of the client.
C33_LateReplyDropped ==
    [][\A id \in Calls, isError \in BOOLEAN :
          (RpcResponse(id, isError) /\ future[id] = "cancelled") =>
              /\ connected' = connected
              /\ future' = future
              /\ pending_requests' \ {id} = pending_requests \ {id}]_vars

\* what listener h has been called with when the reader task is at turn t
\* of the notifications it has read
DeliveredTo(h, arrived, t) ==
    IF t = 0 \/ h < t THEN arrived ELSE SubSeq(arrived, 1, Len(arrived) - 1)

\* C34: every notification goes to every registered listener in the order
\* of its arrival on the wire; a listener that raises keeps neither the
\* other listeners from that notification nor later notifications and
\* responses from being handled.
C34_EveryListenerGetsEveryEvent ==
    [][ /\ \A h \in Handlers :
             events'.got[h] = DeliveredTo(h, events'.arrived, events'.turn)
        /\ \A h \in Handlers, raises \in BOOLEAN :
             HandlerCalled(h, raises) =>
                 /\ connected' = connected
                 /\ h < NumHandlers => events'.turn = h + 1
                 /\ h = NumHandlers => events'.turn = 0
      ]_vars

\* a listener has raised, and after that a second notification has gone to
\* both listeners and a response has completed a request
C34_Witness ==
    /\ events.raised
    /\ events.turn = 0
    /\ Len(events.arrived) = 2 /\ events.arrived[1] # events.arrived[2]
    /\ \A h \in Handlers : events.got[h] = events.arrived
    /\ connected
    /\ \E id \in Calls : future[id] = "result"

\* C35: after KeepaliveSender.stop() has returned, the task of the pump has
\* finished and its MQTT transport is disconnected, whether the pump was
\* running or had stopped itself after its fifth error.  (A task that another
\* call of stop() has cancelled and still waits for is left aside.)
C35_StopLeavesNothingBehind ==
    \A m \in Mgrs :
        (pump[m].stop_returned /\ pump[m].task # "cancelling") =>
            /\ pump[m].task \in {"none", "done"}
            /\ ~pump[m].mqtt_client

\* C36: whenever no handler is in the middle of a step, every StreamManager
\* that is Active is the value stored under its camera id in the session
\* map of the API, for all interleavings of the start and stop requests of
\* one camera.
C36_ActiveIsStored ==
    cur = Idle =>
        \A m \in Mgrs :
            mgr[m].state = "active" => streams[mgr[m].camera_id] = m

\* the socket whose request created sink e (the inverse of NewViewerId)
SocketOf(e) == (e - 1) \div MaxMessages + 1

\* C37: once the handler of a viewer socket has ended, no ViewerSession of
\* that socket is left in the viewer map and, for a client that is still
\* connected to the media server, every sink created for that socket has had
\* its release sent, however many viewer messages the socket sent.
C37_EndedSocketLeavesNothing ==
    \A s \in Socks :
        ws[s].pc = "end" =>
            /\ \A v \in viewers : v.websocket # s
            /\ connected =>
                 \A e \in sinkCreated : SocketOf(e) = s => e \in sinkReleased

\* C38: once the stop message of a session has been published, no keepalive
\* of that session is published, whatever the interleaving of the stops of
\* the session with the keepalive task and its executor thread: no publish
\* of the thread goes out in a state whose log holds the session's stop
\* message.
C38_NoKeepaliveAfterStop ==
    [][\A m \in Mgrs, o \in PublishOutcomes :
          (PumpPublishReturns(m, o) /\ KeepaliveGoesOut(pump[m], o)) =>
              \A e \in mqttLog : ~(e[1] = "stop" /\ e[2] = m)
      ]_vars

\* C39: a response that arrives for a request whose calling task was
\* cancelled while it waited does not end the reader task: the client stays
\* connected (and so goes on dispatching responses and notifications) and no
\* other pending request is touched.
C39_ReplyToCancelledCallerDropped ==
    [][\A id \in Calls, isError \in BOOLEAN :
          ( /\ RpcResponse(id, isError)
            /\ \E k \in Calls : /\ call[k].request_id = id
                                /\ call[k].outcome = "CancelledError" ) =>
              /\ connected'
              /\ pending_requests' \ {id} = pending_requests \ {id}]_vars

\* C40: every start_stream that has entered Starting leaves it, for Active
\* or for Error, also when the media server never answers a call or the
\* broker never acknowledges the play publish: no session stays in Starting
\* for ever.
C40_StartingEnds ==
    \A m \in Mgrs :
        (mgr[m].state = "starting") ~> (mgr[m].state \in {"active", "error"})

\* a session is Active although its play publish was not acknowledged, and
\* another has left Starting for Error with the media server lost
C40_Witness ==
    /\ ~connected
    /\ \E m \in Mgrs : mgr[m].state = "active" /\ <<"play", m, "unacked">> \in mqttLog
    /\ \E m \in Mgrs : mgr[m].state = "error" /\ mgr[m].start_attempts = 1

====
